---- MODULE Spec2Model ----
(***************************************************************************)
(* A model of the identity, versioning and remote synchronisation engine   *)
(* of neis-mate: src/lib/memo-utils.ts (identity, titles, version          *)
(* lineage), src/store/index.ts (the zustand store: local collection and   *)
(* the background pushes to Google Drive), src/lib/google-drive.ts (the    *)
(* GoogleDriveService: saveMemo, deleteMemo, loadMemos, the access token   *)
(* and the static loading flags), src/components/mode-change-dialog.tsx    *)
(* (mode conversion), src/components/editor.tsx (the save of the form) and *)
(* src/components/sidebar.tsx (new memos, selection, folders and drops).   *)
(*                                                                         *)
(* Strings are sequences of tokens, one token per character or per atomic  *)
(* chunk of characters, so that concatenation, split("-"), endsWith and    *)
(* the regular expression /-\d+$/ are computed and not assumed.  TLA+      *)
(* string literals are ASCII, so the three modes are written "general"     *)
(* (일반), "student" (학생) and "teacher" (교사) and the grades e1..e6,     *)
(* m1..m3, h1..h3 (초1..초6, 중1..중3, 고1..고3).                           *)
(*                                                                         *)
(* The specifications share the variables and the actions: SpecStore (the  *)
(* store, its handlers and its pushes), SpecSync (the bulk load and the    *)
(* mode change in a session), SpecFn (the functions of memo-utils.ts on    *)
(* collections of any versions), SpecLoad (the bulk load of any drive),    *)
(* SpecSession (the bulk load over several sessions: signing in and out),  *)
(* SpecReload (SpecSession with forceReload), SpecCascade (the deletes in  *)
(* a version group that is saved on the drive), SpecCredential (the same   *)
(* with the expiry and the refresh of the access token), SpecTitle (the    *)
(* creates of a general-mode user), SpecLookup (the pushes and the bulk    *)
(* load over any drive), SpecIds (every operation on the collection, with  *)
(* the load and the mode change), SpecFolders (the folders of the sidebar) *)
(* SpecEditor (the editor's save, with the load and the mode changes),     *)
(* SpecEnsure (the folders of the remote store), SpecRequest and SpecLatch *)
(* (loadMemosFromDrive called by any caller; the sessions with every load  *)
(* ending), SpecPushes (the saves of one memo interleaved), SpecDuringLoad *)
(* (the user's changes while a load is in flight), SpecComeBack (deletes   *)
(* and the loads of later sessions) and SpecRename (the titles of a        *)
(* general-mode user's memos).                                             *)
(*                                                                         *)
(* Not modelled: the push of user-config.json (saveUserConfig).  A bulk    *)
(* load reads the drive in one step, when it ends.                         *)
(***************************************************************************)
EXTENDS Integers, Sequences, FiniteSets, TLC

VARIABLES
    memos,              \* store.memos: the local collection, in array order
    currentMemoId,      \* store.currentMemoId (0 is null)
    folders,            \* store.folders
    user,               \* store.user: [isLoggedIn, mode] (mode "none" before it is chosen)
    googleDriveLoaded,  \* store.googleDriveLoaded
    preservedAttributes,\* store.preservedAttributes
    isLoading,          \* GoogleDriveService.isLoading (static)
    hasLoaded,          \* GoogleDriveService.hasLoaded (static)
    token,              \* the credential: "valid", "expired" or "none"
    drive,              \* the remote store: the blobs and folders under the root folder, in listing order
    tasks,              \* the saveMemo and deleteMemo promises in flight
    loads,              \* the loadMemosFromDrive calls that await loadMemos
    dialog,             \* the state of ModeChangeDialog
    clock,              \* what new Date() returns next
    idCounter,          \* the ids generateMemoId has handed out
    last                \* the last operation with its arguments and the state it acted on

vars == <<memos, currentMemoId, folders, user, googleDriveLoaded, preservedAttributes,
          isLoading, hasLoaded, token, drive, tasks, loads, dialog, clock, idCounter, last>>

-----------------------------------------------------------------------------
(* Bounds of the model. *)

MaxMemos == 3
MaxClock == 3
MaxTasks == 3
MaxLoads == 2
MaxFolders == 3

-----------------------------------------------------------------------------
(* Strings. *)

\* undefined, for a token (a grade, a folder id), a string and a number.
Undefined == "undefined"
NoStr == <<"<undefined>">>
NoNum == 0 - 1

DigitChars == <<"0", "1", "2", "3", "4", "5", "6", "7", "8", "9">>

IsDigit(t) == \E i \in 1..10 : DigitChars[i] = t

DigitVal(t) == (CHOOSE i \in 1..10 : DigitChars[i] = t) - 1

\* String(n) for a non-negative integer n, as template literals print it.
RECURSIVE NumStr(_)
NumStr(n) ==
    IF n < 10 THEN <<DigitChars[n + 1]>>
    ELSE NumStr(n \div 10) \o <<DigitChars[(n % 10) + 1]>>

\* s.endsWith(suffix)
EndsWith(s, suffix) ==
    /\ Len(s) >= Len(suffix)
    /\ SubSeq(s, Len(s) - Len(suffix) + 1, Len(s)) = suffix

\* s.trim() of a token string: blanks are the token " ".
RECURSIVE Trim(_)
Trim(s) ==
    IF s = <<>> THEN s
    ELSE IF Head(s) = " " THEN Trim(Tail(s))
    ELSE IF s[Len(s)] = " " THEN Trim(SubSeq(s, 1, Len(s) - 1))
    ELSE s

\* s.replace(/-\d+$/, ""): a dash followed by digits only, up to the end.
StripVersionSuffix(s) ==
    LET cut == {i \in 1..Len(s) :
                  /\ s[i] = "-"
                  /\ i < Len(s)
                  /\ \A j \in (i + 1)..Len(s) : IsDigit(s[j])}
    IN IF cut = {} THEN s
       ELSE SubSeq(s, 1, (CHOOSE i \in cut : \A k \in cut : i <= k) - 1)

-----------------------------------------------------------------------------
(* Records: memos are records whose fields depend on the mode, as in        *)
(* src/types; an absent field reads as undefined.                           *)

Has(r, k) == k \in DOMAIN r

GetTok(r, k) == IF k \in DOMAIN r THEN r[k] ELSE Undefined
GetStr(r, k) == IF k \in DOMAIN r THEN r[k] ELSE NoStr
GetNum(r, k) == IF k \in DOMAIN r THEN r[k] ELSE NoNum

\* s || d, for a string: undefined and "" are falsy.
StrOr(s, d) == IF s = NoStr \/ s = <<>> THEN d ELSE s
\* t || d, for a token
TokOr(t, d) == IF t = Undefined \/ t = "" THEN d ELSE t
\* n || d, for a number: undefined and 0 are falsy.
NumOr(n, d) == IF n = NoNum \/ n = 0 THEN d ELSE n

\* { ...r, ...u }
Spread(r, u) == [k \in DOMAIN r \cup DOMAIN u |-> IF k \in DOMAIN u THEN u[k] ELSE r[k]]

Range(s) == {s[i] : i \in 1..Len(s)}

Ids(ms) == {ms[i].id : i \in 1..Len(ms)}

-----------------------------------------------------------------------------
(* src/lib/memo-utils.ts *)

GRADES == <<"e1", "e2", "e3", "e4", "e5", "e6", "m1", "m2", "m3", "h1", "h2", "h3">>

CurrentYear == 2026
CurrentMonth == 11

\* getYearInfo().defaultYear
DefaultYear == IF CurrentMonth <= 2 THEN CurrentYear - 1 ELSE CurrentYear

\* getYearInfo().years
YEARS ==
    IF CurrentMonth <= 2
    THEN <<CurrentYear + 1, CurrentYear, CurrentYear - 1, CurrentYear - 2,
           CurrentYear - 3, CurrentYear - 4, CurrentYear - 5>>
    ELSE <<CurrentYear + 2, CurrentYear + 1, CurrentYear, CurrentYear - 1,
           CurrentYear - 2, CurrentYear - 3, CurrentYear - 4>>

\* `${grade}` : a grade is one token; undefined prints as "undefined".
GradeStr(g) == <<g>>

\* `${year}`
YearStr(y) == IF y = NoNum THEN <<Undefined>> ELSE NumStr(y)

\* `${s}` of an optional string
OptStr(s) == IF s = NoStr THEN <<Undefined>> ELSE s

getMemoBaseIdentifier(memo) ==
    CASE memo.mode = "general" -> StripVersionSuffix(memo.title)
      [] memo.mode = "student" -> GradeStr(memo.grade) \o <<"-">> \o memo.subject
      [] memo.mode = "teacher" ->
            YearStr(memo.year) \o <<"-">> \o GradeStr(memo.grade) \o <<"-">>
                \o memo.subject \o <<"-">> \o memo.student
      [] OTHER -> <<>>

\* The filter predicate of getRelatedMemos.
IsRelated(memo, targetMemo) ==
    /\ memo.mode = targetMemo.mode
    /\ CASE memo.mode = "general" ->
                getMemoBaseIdentifier(memo) = getMemoBaseIdentifier(targetMemo)
         [] memo.mode = "student" ->
                /\ memo.grade = targetMemo.grade
                /\ memo.subject = targetMemo.subject
         [] memo.mode = "teacher" ->
                /\ memo.year = targetMemo.year
                /\ memo.grade = targetMemo.grade
                /\ memo.subject = targetMemo.subject
                /\ memo.student = targetMemo.student
         [] OTHER -> FALSE

getRelatedMemos(targetMemo, allMemos) ==
    LET Test(m) == IsRelated(m, targetMemo) IN SelectSeq(allMemos, Test)

\* The loop `for (let i = 1; i <= usedVersions.length + 1; i++)`, from i on.
RECURSIVE FirstUnused(_, _, _)
FirstUnused(i, n, used) ==
    IF i > n + 1 THEN 0
    ELSE IF i \notin used THEN i
    ELSE FirstUnused(i + 1, n, used)

SetMax(S) == IF S = {} THEN 0 ELSE CHOOSE x \in S : \A y \in S : y <= x

\* C7, a plausible bug: the next version is the size of the group plus one,
\* which is right only while the group has no gap.
getNextAvailableVersionByCount(targetMemo, allMemos) ==
    Len(getRelatedMemos(targetMemo, allMemos)) + 1

getNextAvailableVersion(targetMemo, allMemos) ==
    LET relatedMemos == getRelatedMemos(targetMemo, allMemos)
        usedVersions == {relatedMemos[i].version : i \in 1..Len(relatedMemos)}
        found == FirstUnused(1, Len(relatedMemos), usedVersions)
    IN IF found # 0 THEN found ELSE SetMax(usedVersions \cup {0}) + 1

\* options carries title, grade, subject, year, student, version; a field that
\* is not passed is undefined, and version defaults to 1.
createInternalTitle(mode, options) ==
    LET version == IF GetNum(options, "version") = NoNum THEN 1 ELSE options.version
    IN CASE mode = "general" -> StrOr(GetStr(options, "title"), <<>>)
         [] mode = "student" ->
                GradeStr(GetTok(options, "grade")) \o <<"-">> \o OptStr(GetStr(options, "subject"))
                    \o <<"-">> \o NumStr(version)
         [] mode = "teacher" ->
                YearStr(GetNum(options, "year")) \o <<"-">> \o GradeStr(GetTok(options, "grade"))
                    \o <<"-">> \o OptStr(GetStr(options, "subject")) \o <<"-">>
                    \o OptStr(GetStr(options, "student")) \o <<"-">> \o NumStr(version)
         [] OTHER -> <<>>

createDisplayTitle(mode, options) ==
    LET version == IF GetNum(options, "version") = NoNum THEN 1 ELSE options.version
    IN CASE mode = "general" -> StrOr(GetStr(options, "title"), <<>>)
         [] mode = "student" ->
                IF version > 1
                THEN OptStr(GetStr(options, "subject")) \o <<"-">> \o NumStr(version)
                ELSE StrOr(GetStr(options, "subject"), <<>>)
         [] mode = "teacher" -> StrOr(GetStr(options, "student"), <<>>)
         [] OTHER -> <<>>

\* Array.prototype.sort((a, b) => a.version - b.version): stable, ascending.
RECURSIVE InsertByVersion(_, _)
InsertByVersion(sorted, m) ==
    IF sorted = <<>> THEN <<m>>
    ELSE IF sorted[Len(sorted)].version <= m.version THEN Append(sorted, m)
    ELSE Append(InsertByVersion(SubSeq(sorted, 1, Len(sorted) - 1), m), sorted[Len(sorted)])

RECURSIVE SortByVersion(_)
SortByVersion(ms) ==
    IF ms = <<>> THEN <<>>
    ELSE InsertByVersion(SortByVersion(SubSeq(ms, 1, Len(ms) - 1)), ms[Len(ms)])

\* ms.findIndex(m => m.id === id), 0 for -1
FindIndexById(ms, id) ==
    IF \E i \in 1..Len(ms) : ms[i].id = id
    THEN CHOOSE i \in 1..Len(ms) : ms[i].id = id /\ \A j \in 1..(i - 1) : ms[j].id # id
    ELSE 0

\* C6, a plausible bug: the renumbering sets the version and leaves the names
\* and the title of the old version.
RenumberedMemoStaleNames(memo, newVersion) == Spread(memo, [version |-> newVersion])

\* C29, a plausible bug: the renumbering counts as an edit and moves the
\* memo's modifiedAt on.
RenumberedMemoTouched(memo, newVersion) ==
    Spread(memo, [version |-> newVersion, modifiedAt |-> memo.modifiedAt + 1])

\* The body of reorderVersionNumbers' forEach for one related memo: the memo
\* with its new version and the titles recomputed for it.
RenumberedMemo(memo, newVersion) ==
    CASE memo.mode = "student" ->
            Spread(memo,
                [version |-> newVersion,
                 internalTitle |-> createInternalTitle(memo.mode,
                     [grade |-> memo.grade, subject |-> memo.subject, version |-> newVersion]),
                 displayTitle |-> createDisplayTitle(memo.mode,
                     [subject |-> memo.subject, version |-> newVersion])])
      [] memo.mode = "teacher" ->
            Spread(memo,
                [version |-> newVersion,
                 internalTitle |-> createInternalTitle(memo.mode,
                     [year |-> memo.year, grade |-> memo.grade, subject |-> memo.subject,
                      student |-> memo.student, version |-> newVersion])])
      [] memo.mode = "general" ->
            LET baseTitle == getMemoBaseIdentifier(memo)
            IN Spread(memo,
                [version |-> newVersion,
                 title |-> IF newVersion = 1 THEN baseTitle
                           ELSE baseTitle \o <<"-">> \o NumStr(newVersion)])
      [] OTHER -> Spread(memo, [version |-> newVersion])

\* C22, a plausible bug: the renumbering stops after the first related memo.
ReorderFirstOnly(relatedMemos, index, updatedMemos) ==
    IF relatedMemos = <<>> THEN updatedMemos
    ELSE LET memo == relatedMemos[1]
             memoIndex == FindIndexById(updatedMemos, memo.id)
         IN IF memo.version # 1 /\ memoIndex # 0
            THEN [updatedMemos EXCEPT ![memoIndex] = RenumberedMemo(memo, 1)]
            ELSE updatedMemos

\* relatedMemos.forEach((memo, index) => ...) from position index on.
RECURSIVE ReorderFrom(_, _, _)
ReorderFrom(relatedMemos, index, updatedMemos) ==
    IF index > Len(relatedMemos) THEN updatedMemos
    ELSE LET memo == relatedMemos[index]
             newVersion == index
             memoIndex == FindIndexById(updatedMemos, memo.id)
         IN ReorderFrom(relatedMemos, index + 1,
                IF memo.version # newVersion /\ memoIndex # 0
                THEN [updatedMemos EXCEPT ![memoIndex] = RenumberedMemo(memo, newVersion)]
                ELSE updatedMemos)

reorderVersionNumbers(deletedMemo, allMemos) ==
    LET NotDeleted(m) == m.id # deletedMemo.id
        relatedMemos ==
            SortByVersion(SelectSeq(getRelatedMemos(deletedMemo, allMemos), NotDeleted))
    IN ReorderFrom(relatedMemos, 1, allMemos)

\* createNewMemo(mode, content, options) with the id generateMemoId() returned
\* and the time new Date() returned.
createNewMemo(mode, content, options, id, now) ==
    LET baseProps == [id |-> id, content |-> content, createdAt |-> now,
                      modifiedAt |-> now, viewedAt |-> now, version |-> 1]
    IN CASE mode = "general" ->
                Spread(baseProps,
                    [mode |-> "general",
                     title |-> StrOr(GetStr(options, "title"), <<>>),
                     folderId |-> GetTok(options, "folderId")])
         [] mode = "student" ->
                Spread(baseProps,
                    [mode |-> "student",
                     grade |-> TokOr(GetTok(options, "grade"), "m1"),
                     subject |-> StrOr(GetStr(options, "subject"), <<>>),
                     internalTitle |-> createInternalTitle(mode, options),
                     displayTitle |-> createDisplayTitle(mode, options)])
         [] mode = "teacher" ->
                Spread(baseProps,
                    [mode |-> "teacher",
                     year |-> NumOr(GetNum(options, "year"), DefaultYear),
                     grade |-> TokOr(GetTok(options, "grade"), "m1"),
                     subject |-> StrOr(GetStr(options, "subject"), <<>>),
                     student |-> StrOr(GetStr(options, "student"), <<>>),
                     internalTitle |-> createInternalTitle(mode, options),
                     displayTitle |-> createDisplayTitle(mode, options)])

createNewVersion(memo, allMemos, newId, now) ==
    LET newVersion == getNextAvailableVersion(memo, allMemos)
        stamps == [id |-> newId, version |-> newVersion, createdAt |-> now,
                   modifiedAt |-> now, viewedAt |-> now]
    IN CASE memo.mode = "general" ->
                LET baseTitle == getMemoBaseIdentifier(memo)
                    title == IF newVersion = 1 THEN baseTitle
                             ELSE baseTitle \o <<"-">> \o NumStr(newVersion)
                IN Spread(Spread(memo, stamps), [title |-> title])
         [] memo.mode = "student" ->
                Spread(Spread(memo, stamps),
                    [internalTitle |-> createInternalTitle(memo.mode,
                        [grade |-> memo.grade, subject |-> memo.subject, version |-> newVersion]),
                     displayTitle |-> createDisplayTitle(memo.mode,
                        [subject |-> memo.subject, version |-> newVersion])])
         [] memo.mode = "teacher" ->
                Spread(Spread(memo, stamps),
                    [internalTitle |-> createInternalTitle(memo.mode,
                        [year |-> memo.year, grade |-> memo.grade, subject |-> memo.subject,
                         student |-> memo.student, version |-> newVersion])])

\* " 사본"
CopySuffix == <<" ", "copy">>

\* C26, a plausible bug: the copy is the spread of the memo with new times,
\* and no new id.
duplicateMemoSameId(memo, newId, now) ==
    LET stamps == [createdAt |-> now, modifiedAt |-> now, viewedAt |-> now]
    IN IF memo.mode = "general"
       THEN Spread(Spread(memo, stamps), [title |-> memo.title \o CopySuffix])
       ELSE Spread(memo, stamps)

duplicateMemo(memo, newId, now) ==
    LET stamps == [id |-> newId, createdAt |-> now, modifiedAt |-> now, viewedAt |-> now]
    IN CASE memo.mode = "general" ->
                Spread(Spread(memo, stamps), [title |-> memo.title \o CopySuffix])
         [] memo.mode = "student" -> Spread(memo, stamps)
         [] memo.mode = "teacher" -> Spread(memo, stamps)

-----------------------------------------------------------------------------
(* src/lib/google-drive.ts: the remote store and GoogleDriveService.        *)
(*                                                                          *)
(* drive.files lists the blobs and folders below the root folder in the     *)
(* order files.list returns them; parent is RootId or the remote id of a    *)
(* first-level folder.  A blob's content is unparseable, or the JSON of a   *)
(* record.  nextId is the next remote id the store hands out.               *)

\* The id ensureNeisMateFolder returns: remote ids are numbers, the root folder's is 0.
RootId == 0

FolderMime == "application/vnd.google-apps.folder"
JsonMime == "application/json"

JsonExt == <<".json">>
UserConfigName == <<"user", "-", "config", ".json">>
Untitled == <<"untitled">>

\* JSON.stringify(memo): a property whose value is undefined is left out.
JsonStringify(memo) ==
    LET kept == {k \in DOMAIN memo : ~(k = "folderId" /\ memo[k] = Undefined)}
    IN [ok |-> TRUE, value |-> [k \in kept |-> memo[k]]]

Unparseable == [ok |-> FALSE]

\* instance.listFiles(folderId)
listFiles(d, folderId) ==
    LET InFolder(f) == f.parent = folderId IN SelectSeq(d.files, InFolder)

\* C24, a plausible bug: every blob with a name that ends in .json is read
\* as a memo.
IsMemoFileNameAnyJson(name) == EndsWith(name, JsonExt)

\* file.name.endsWith(".json") && file.name !== "user-config.json"
IsMemoFileName(name) == EndsWith(name, JsonExt) /\ name # UserConfigName

\* The name saveMemo and deleteMemo give the blob of a memo.
MemoFileName(memo) ==
    IF memo.mode = "general"
    THEN StrOr(memo.title, Untitled) \o JsonExt
    ELSE StrOr(GetStr(memo, "internalTitle"), Untitled) \o JsonExt

\* getFileContent + JSON.parse succeed and give an object: a folder has no media.
Parses(f) == f.mimeType # FolderMime /\ f.content.ok

\* memo.id of a parsed blob (0 when it has none)
EmbeddedId(f) == IF "id" \in DOMAIN f.content.value THEN f.content.value.id ELSE 0

-----------------------------------------------------------------------------
(* loadMemos: the enumeration and the dedup by id. *)

\* allFilesToProcess: the root folder's blobs, then each first-level folder's.
RECURSIVE SubFolderFiles(_, _)
SubFolderFiles(d, subFolders) ==
    IF subFolders = <<>> THEN <<>>
    ELSE LET IsMemoFile(f) == IsMemoFileName(f.name)
         IN SelectSeq(listFiles(d, Head(subFolders).fid), IsMemoFile)
                \o SubFolderFiles(d, Tail(subFolders))

AllFilesToProcess(d) ==
    LET rootFiles == listFiles(d, RootId)
        IsMemoFile(f) == IsMemoFileName(f.name)
        IsFolder(f) == f.mimeType = FolderMime
    IN SelectSeq(rootFiles, IsMemoFile) \o SubFolderFiles(d, SelectSeq(rootFiles, IsFolder))

\* C2, a plausible bug: the memos are kept in a map keyed by id, so a later
\* blob with an id already seen takes the place of the admitted one.
RECURSIVE DedupByIdLastWins(_, _, _)
DedupByIdLastWins(processedFiles, seenMemoIds, loaded) ==
    IF processedFiles = <<>> THEN loaded
    ELSE LET f == Head(processedFiles)
             ok == Parses(f) /\ EmbeddedId(f) # 0
             seen == ok /\ EmbeddedId(f) \in seenMemoIds
         IN DedupByIdLastWins(Tail(processedFiles),
                IF ok THEN seenMemoIds \cup {EmbeddedId(f)} ELSE seenMemoIds,
                IF seen
                THEN [k \in 1..Len(loaded) |->
                        IF loaded[k].id = EmbeddedId(f) THEN f.content.value ELSE loaded[k]]
                ELSE IF ok THEN Append(loaded, f.content.value)
                ELSE loaded)

\* The loop over processedFiles with seenMemoIds.
RECURSIVE DedupById(_, _, _)
DedupById(processedFiles, seenMemoIds, loaded) ==
    IF processedFiles = <<>> THEN loaded
    ELSE LET f == Head(processedFiles)
             admit == Parses(f) /\ EmbeddedId(f) # 0 /\ EmbeddedId(f) \notin seenMemoIds
         IN DedupById(Tail(processedFiles),
                IF admit THEN seenMemoIds \cup {EmbeddedId(f)} ELSE seenMemoIds,
                IF admit THEN Append(loaded, f.content.value) ELSE loaded)

\* What loadMemos returns when its remote calls succeed.
LoadedMemos(d) == DedupById(AllFilesToProcess(d), {}, <<>>)

-----------------------------------------------------------------------------
(* src/store/index.ts: the store's operations on the local collection.      *)

Modes == {"general", "student", "teacher"}

\* C23, a plausible bug: the suffix is always " (2)", taken or not.
UniqueTitleSecond(ms, title, counter) == title \o <<" ", "(">> \o NumStr(2) \o <<")">>

\* The while loop of addMemo: the first `${title} (${counter})` no general memo has.
RECURSIVE UniqueTitle(_, _, _)
UniqueTitle(ms, title, counter) ==
    LET newTitle == title \o <<" ", "(">> \o NumStr(counter) \o <<")">>
    IN IF \E i \in 1..Len(ms) : ms[i].mode = "general" /\ ms[i].title = newTitle
       THEN UniqueTitle(ms, title, counter + 1)
       ELSE newTitle

\* The memo addMemo appends: a general memo whose title is taken gets a suffix.
addMemoTitle(ms, memo) ==
    IF /\ memo.mode = "general"
       /\ \E i \in 1..Len(ms) :
            ms[i].mode = "general" /\ ms[i].title = memo.title /\ ms[i].id # memo.id
    THEN [memo EXCEPT !.title = UniqueTitle(ms, memo.title, 2)]
    ELSE memo

\* C10, a plausible bug: a signed-in user's memo is added to the collection
\* only when the save to the drive can start.
addMemoRemoteFirst(ms, memo) ==
    IF user.isLoggedIn /\ token # "valid" THEN ms ELSE Append(ms, addMemoTitle(ms, memo))

\* return { memos: [...state.memos, memo] }
addMemo(ms, memo) == Append(ms, addMemoTitle(ms, memo))

\* C9, a plausible bug: the update derives the display title again, from the
\* fields of the update alone.
updateMemoRetitled(ms, id, updates, now) ==
    [i \in 1..Len(ms) |->
        IF ms[i].id = id
        THEN Spread(Spread(ms[i], updates),
                 [modifiedAt |-> now, displayTitle |-> createDisplayTitle(ms[i].mode, updates)])
        ELSE ms[i]]

\* state.memos.map(...) of updateMemo
updateMemo(ms, id, updates, now) ==
    [i \in 1..Len(ms) |->
        IF ms[i].id = id
        THEN Spread(Spread(ms[i], updates), [modifiedAt |-> now])
        ELSE ms[i]]

\* state.memos.find(memo => memo.id === id): its index, 0 when there is none
FindMemo(ms, id) == FindIndexById(ms, id)

\* C11, a plausible bug: a signed-in user's memo stays in the collection until
\* the drive has confirmed the delete.
deleteMemoAwaitsRemote(ms, id) ==
    IF user.isLoggedIn THEN ms
    ELSE IF FindIndexById(ms, id) = 0 THEN ms
    ELSE LET Kept(m) == m.id # id
         IN reorderVersionNumbers(ms[FindIndexById(ms, id)], SelectSeq(ms, Kept))

\* The local part of deleteMemo: the memos it returns.
deleteMemo(ms, id) ==
    IF FindMemo(ms, id) = 0 THEN ms
    ELSE LET memoToDelete == ms[FindMemo(ms, id)]
             Kept(m) == m.id # id
             memosAfterDeletion == SelectSeq(ms, Kept)
         IN reorderVersionNumbers(memoToDelete, memosAfterDeletion)

\* C30, a plausible bug: viewing a memo counts as an edit and sets its
\* modifiedAt too.
setViewedAndModified(ms, id, now) ==
    [i \in 1..Len(ms) |->
        IF ms[i].id = id THEN Spread(ms[i], [viewedAt |-> now, modifiedAt |-> now])
        ELSE ms[i]]

\* The second set() of setCurrentMemoId
setViewed(ms, id, now) ==
    [i \in 1..Len(ms) |-> IF ms[i].id = id THEN Spread(ms[i], [viewedAt |-> now]) ELSE ms[i]]

-----------------------------------------------------------------------------
(* The background promises.  A task is the rest of one call of saveMemo,    *)
(* deleteMemo or loadMemos after its synchronous part.                      *)

\* origin names the store operation that made the call: "add", "update",
\* "move" (or "moveAmongPushes"), "reorder".
SaveTask(memo, fs, origin) ==
    [kind |-> "save", pc |-> "resolve", memo |-> memo, folders |-> fs, origin |-> origin,
     target |-> RootId, existing |-> 0, existingName |-> <<>>]

DeleteTask(memo) ==
    [kind |-> "delete", pc |-> "lookup", memo |-> memo, existing |-> 0]

\* A call of loadMemosFromDrive that awaits loadMemos: state is the store
\* state get() returned before the await.  stale records that the user has
\* signed out since the call was made.
LoadTask(loadedBefore) == [loadedBefore |-> loadedBefore, stale |-> FALSE]

\* The synchronous part of GoogleDriveService.saveMemo: an expired token in
\* localStorage clears the tokens and rejects; otherwise the call goes on.
SaveMemoRejects(tok) == tok = "expired"

TokenAfterSave(tok) == IF tok = "expired" THEN "none" ELSE tok

\* createFile, updateFile and deleteFile throw "Not authenticated" when there
\* is no access token and send the request with the token they have otherwise.
BlobCallSent(tok) == tok # "none"

\* The saveMemo calls of one handler, in order, as the tasks they leave.
RECURSIVE SaveCalls(_, _, _, _)
SaveCalls(tok, toSave, fs, origin) ==
    IF toSave = <<>> THEN <<>>
    ELSE (IF SaveMemoRejects(tok) THEN <<>> ELSE <<SaveTask(Head(toSave), fs, origin)>>)
            \o SaveCalls(TokenAfterSave(tok), Tail(toSave), fs, origin)

TokenAfterSaves(tok, toSave) == IF toSave = <<>> THEN tok ELSE TokenAfterSave(tok)

\* C18, a plausible bug: the memos the reordering gave a new version are not
\* saved again.
ReorderedToSaveNothing(memosAfterDeletion, reorderedMemos) == <<>>

\* The memos deleteMemo saves again: those whose version the reordering changed.
ReorderedToSave(memosAfterDeletion, reorderedMemos) ==
    LET Changed(m) ==
            /\ FindMemo(memosAfterDeletion, m.id) # 0
            /\ memosAfterDeletion[FindMemo(memosAfterDeletion, m.id)].version # m.version
    IN SelectSeq(reorderedMemos, Changed)

-----------------------------------------------------------------------------
(* What the user can type or select. *)

Contents == {"", "text"}

\* '새 메모', '새 과목' and '새 학생': what the sidebar gives a new memo
NewMemoTitle == <<"new memo">>
NewSubject == <<"new subject">>
NewStudent == <<"new student">>
SidebarYear == 2024

\* What the editor's form holds when a memo is first saved: canSave() wants a
\* title, subject and student that are not blank, and a content.
TitleInputs == {<<"a", "-", "2">>, <<"user", "-", "config">>, <<"m1", "-", "math">>}
SubjectInputs == {<<"math">>}
StudentInputs == {<<"kim">>}
GradeInputs == {"h1"}
YearInputs == {DefaultYear}

InitialFolders == <<[id |-> "f1", name |-> <<"docs">>, parentId |-> Undefined]>>

\* currentFolderId || undefined
FolderIdInputs == {Undefined} \cup {InitialFolders[i].id : i \in 1..Len(InitialFolders)}

\* The options handleCreateNewMemo passes to createNewMemo.
SidebarOptions ==
    [title |-> NewMemoTitle, grade |-> "m1", subject |-> NewSubject, year |-> SidebarYear,
     student |-> NewStudent]

\* The options handleSave passes to createNewMemo, with no current folder
\* selected (the sidebar's handler covers a memo made in a folder).
EditorOptions(mode) ==
    CASE mode = "general" ->
            {[title |-> t, grade |-> Undefined, subject |-> <<>>, year |-> DefaultYear,
              student |-> <<>>, folderId |-> Undefined] : t \in TitleInputs}
      [] mode = "student" ->
            {[title |-> <<>>, grade |-> g, subject |-> sb, year |-> DefaultYear,
              student |-> <<>>, folderId |-> Undefined] :
                g \in GradeInputs, sb \in SubjectInputs}
      [] mode = "teacher" ->
            {[title |-> <<>>, grade |-> g, subject |-> sb, year |-> y,
              student |-> st, folderId |-> Undefined] :
                g \in GradeInputs, sb \in SubjectInputs, y \in YearInputs, st \in StudentInputs}
      [] OTHER -> {}

\* preservedAttributes: {} of the store
NoAttributes == [year |-> NoNum, grade |-> Undefined, subject |-> NoStr, student |-> NoStr,
                 title |-> NoStr]

-----------------------------------------------------------------------------
(* The handlers of the components, each with the store operations it calls. *)

\* The pushes a handler starts: saveMemo for each memo of toSave, after the
\* deleteMemo call when toDelete holds a memo. Nothing when nobody is logged in.
Pushes(toDelete, toSave, origin) ==
    IF user.isLoggedIn
    THEN /\ tasks' = tasks \o [i \in 1..Len(toDelete) |-> DeleteTask(toDelete[i])]
                           \o SaveCalls(token, toSave, folders, origin)
         /\ token' = TokenAfterSaves(token, toSave)
         /\ Len(tasks') <= MaxTasks
    ELSE UNCHANGED <<tasks, token>>

\* sidebar.tsx handleCreateNewMemo: createNewMemo with the fixed options, the
\* current folder for a general memo, addMemo, setCurrentMemoId.
HandleCreateNewMemo(currentFolderId) ==
    /\ user.mode \in Modes
    /\ ~dialog.isOpen
    /\ Len(memos) < MaxMemos
    /\ clock < MaxClock
    /\ LET created == createNewMemo(user.mode, "", SidebarOptions, idCounter + 1, clock)
           newMemo == IF currentFolderId # Undefined /\ user.mode = "general"
                      THEN [created EXCEPT !.folderId = currentFolderId]
                      ELSE created
           added == addMemoTitle(memos, newMemo)
       IN /\ memos' = setViewed(addMemo(memos, newMemo), newMemo.id, clock)
          /\ currentMemoId' = newMemo.id
          /\ Pushes(<<>>, <<added>>, "add")
          /\ last' = [op |-> "create", id |-> newMemo.id, made |-> newMemo, pre |-> memos]
    /\ idCounter' = idCounter + 1
    /\ clock' = clock + 1
    /\ UNCHANGED <<folders, user, googleDriveLoaded, preservedAttributes, isLoading,
                   hasLoaded, drive, loads, dialog>>

\* editor.tsx handleSave, first save of a new file: createNewMemo with the
\* form's fields, addMemo, setCurrentMemoId, clearPreservedAttributes.
HandleSaveNew(content, options) ==
    /\ user.mode \in Modes
    /\ ~dialog.isOpen
    /\ content # ""
    /\ Len(memos) < MaxMemos
    /\ clock < MaxClock
    /\ LET newMemo == createNewMemo(user.mode, content, options, idCounter + 1, clock)
           added == addMemoTitle(memos, newMemo)
       IN /\ memos' = setViewed(addMemo(memos, newMemo), newMemo.id, clock)
          /\ currentMemoId' = newMemo.id
          /\ Pushes(<<>>, <<added>>, "add")
          /\ last' = [op |-> "create", id |-> newMemo.id, made |-> newMemo, pre |-> memos]
    /\ preservedAttributes' = NoAttributes
    /\ idCounter' = idCounter + 1
    /\ clock' = clock + 1
    /\ UNCHANGED <<folders, user, googleDriveLoaded, isLoading, hasLoaded, drive, loads,
                   dialog>>

\* The updates handleSave builds for the current memo: the fields of the
\* form of the user's mode and, for the student and the teacher mode, the
\* names from them and the current memo's version.
EditorUpdates(mode, currentMemo, content, form) ==
    CASE mode = "general" -> [content |-> content, title |-> form.title]
      [] mode = "student" ->
            [content |-> content, grade |-> form.grade, subject |-> form.subject,
             internalTitle |-> GradeStr(form.grade) \o <<"-">> \o form.subject \o <<"-">>
                                \o NumStr(currentMemo.version),
             displayTitle |-> IF currentMemo.version > 1
                              THEN form.subject \o <<"-">> \o NumStr(currentMemo.version)
                              ELSE form.subject]
      [] mode = "teacher" ->
            [content |-> content, year |-> form.year, grade |-> form.grade,
             subject |-> form.subject, student |-> form.student,
             internalTitle |-> YearStr(form.year) \o <<"-">> \o GradeStr(form.grade)
                                \o <<"-">> \o form.subject \o <<"-">> \o form.student
                                \o <<"-">> \o NumStr(currentMemo.version),
             displayTitle |-> form.student]

\* editor.tsx handleSave with a current memo: updateMemo(currentMemo.id,
\* updates), clearPreservedAttributes.  canSave() wants the form of the
\* user's mode filled in, as the forms of EditorOptions are.
HandleSaveExisting(content, form) ==
    /\ user.mode \in Modes
    /\ ~dialog.isOpen
    /\ content # ""
    /\ FindMemo(memos, currentMemoId) # 0
    /\ clock < MaxClock
    /\ LET currentMemo == memos[FindMemo(memos, currentMemoId)]
           updated == updateMemo(memos, currentMemo.id,
                                 EditorUpdates(user.mode, currentMemo, content, form), clock)
           Hit(m) == m.id = currentMemo.id
       IN /\ memos' = updated
          /\ Pushes(<<>>, SelectSeq(updated, Hit), "update")
          /\ last' = [op |-> "saveExisting", id |-> currentMemo.id, pre |-> memos]
    /\ preservedAttributes' = NoAttributes
    /\ clock' = clock + 1
    /\ UNCHANGED <<currentMemoId, folders, user, googleDriveLoaded, isLoading, hasLoaded,
                   drive, loads, dialog, idCounter>>

\* memo-context-menu.tsx handleNewVersion: createNewVersion(memo, memos), addMemo.
HandleNewVersion(i) ==
    /\ i \in 1..Len(memos)
    /\ ~dialog.isOpen
    /\ Len(memos) < MaxMemos
    /\ clock < MaxClock
    /\ LET newMemo == createNewVersion(memos[i], memos, idCounter + 1, clock)
           added == addMemoTitle(memos, newMemo)
       IN /\ memos' = addMemo(memos, newMemo)
          /\ Pushes(<<>>, <<added>>, "add")
          /\ last' = [op |-> "newVersion", id |-> newMemo.id, made |-> newMemo,
                      source |-> memos[i], pre |-> memos]
    /\ idCounter' = idCounter + 1
    /\ clock' = clock + 1
    /\ UNCHANGED <<currentMemoId, folders, user, googleDriveLoaded, preservedAttributes,
                   isLoading, hasLoaded, drive, loads, dialog>>

\* memo-context-menu.tsx handleDuplicate: duplicateMemo(memo), addMemo.
HandleDuplicate(i) ==
    /\ i \in 1..Len(memos)
    /\ ~dialog.isOpen
    /\ Len(memos) < MaxMemos
    /\ clock < MaxClock
    /\ LET newMemo == duplicateMemo(memos[i], idCounter + 1, clock)
           added == addMemoTitle(memos, newMemo)
       IN /\ memos' = addMemo(memos, newMemo)
          /\ Pushes(<<>>, <<added>>, "add")
          /\ last' = [op |-> "duplicate", id |-> newMemo.id, made |-> newMemo,
                      source |-> memos[i], pre |-> memos]
    /\ idCounter' = idCounter + 1
    /\ clock' = clock + 1
    /\ UNCHANGED <<currentMemoId, folders, user, googleDriveLoaded, preservedAttributes,
                   isLoading, hasLoaded, drive, loads, dialog>>

\* memo-context-menu.tsx handleDelete: deleteMemo(memo.id).
HandleDelete(i) ==
    /\ i \in 1..Len(memos)
    /\ ~dialog.isOpen
    /\ LET id == memos[i].id
           memoToDelete == memos[FindMemo(memos, id)]
           Kept(m) == m.id # id
           memosAfterDeletion == SelectSeq(memos, Kept)
           reorderedMemos == deleteMemo(memos, id)
       IN /\ memos' = reorderedMemos
          /\ currentMemoId' = IF currentMemoId = id THEN 0 ELSE currentMemoId
          /\ Pushes(<<memoToDelete>>, ReorderedToSave(memosAfterDeletion, reorderedMemos), "reorder")
          /\ last' = [op |-> "delete", id |-> id, source |-> memoToDelete, pre |-> memos]
    /\ UNCHANGED <<folders, user, googleDriveLoaded, preservedAttributes, isLoading,
                   hasLoaded, drive, loads, dialog, clock, idCounter>>

\* memo-context-menu.tsx handleRollback: updateMemo(memo.id, { content }),
\* the update that carries the content alone.
HandleUpdateContent(i, content) ==
    /\ i \in 1..Len(memos)
    /\ ~dialog.isOpen
    /\ clock < MaxClock
    /\ memos[i].content # content
    /\ LET id == memos[i].id
           updated == updateMemo(memos, id, [content |-> content], clock)
           Hit(m) == m.id = id
       IN /\ memos' = updated
          /\ Pushes(<<>>, SelectSeq(updated, Hit), "update")
          /\ last' = [op |-> "updateContent", id |-> id, pre |-> memos]
    /\ clock' = clock + 1
    /\ UNCHANGED <<currentMemoId, folders, user, googleDriveLoaded, preservedAttributes,
                   isLoading, hasLoaded, drive, loads, dialog, idCounter>>

\* '새 폴더'
NewFolderName == <<"new folder">>

\* The ids generateFolderId() can return: one that no folder has and that
\* nothing names as a parent, since an id is never given twice.
FolderIdPool == {"f1", "f2", "f3", "f4"}

FreshFolderIds(fs) ==
    {id \in FolderIdPool :
        \A i \in 1..Len(fs) : fs[i].id # id /\ fs[i].parentId # id}

\* sidebar.tsx handleCreateNewFolder: addFolder of a folder below the current
\* folder, which is null, a folder, or a folder that has been deleted since.
HandleCreateNewFolder(id, currentFolderId) ==
    /\ user.mode = "general"
    /\ Len(folders) < MaxFolders
    /\ id \in FreshFolderIds(folders)
    /\ currentFolderId \in {Undefined} \cup (FolderIdPool \ {id})
    /\ folders' = Append(folders, [id |-> id, name |-> NewFolderName,
                                   parentId |-> currentFolderId])
    /\ last' = [op |-> "createFolder", id |-> id]
    /\ UNCHANGED <<memos, currentMemoId, user, googleDriveLoaded, preservedAttributes,
                   isLoading, hasLoaded, token, drive, tasks, loads, dialog, clock, idCounter>>

\* getFolderPath(folderId): the names from the topmost folder down to the folder
RECURSIVE getFolderPath(_, _)
getFolderPath(fs, folderId) ==
    LET Match(f) == f.id = folderId
        found == SelectSeq(fs, Match)
    IN IF found = <<>> THEN <<>>
       ELSE IF found[1].parentId = Undefined THEN <<found[1].name>>
       ELSE getFolderPath(fs, found[1].parentId) \o <<found[1].name>>

\* C27, a plausible bug: the drop of a folder is made without the check.
IsCircularNever(fs, folder, targetFolderId) == FALSE

\* targetPath.includes(folder.name), the check for a circular reference
IsCircular(fs, folder, targetFolderId) ==
    folder.name \in Range(getFolderPath(fs, targetFolderId))

\* sidebar.tsx handleDrop of a folder on a folder, or on the root (Undefined).
HandleDropFolder(i, targetFolderId) ==
    /\ i \in 1..Len(folders)
    /\ targetFolderId \in {Undefined} \cup {folders[j].id : j \in 1..Len(folders)}
    /\ LET folder == folders[i]
           Moved(parent) == [j \in 1..Len(folders) |->
                                IF folders[j].id = folder.id
                                THEN [folders[j] EXCEPT !.parentId = parent]
                                ELSE folders[j]]
       IN /\ folders' =
                IF folder.id = targetFolderId THEN folders
                ELSE IF targetFolderId = Undefined THEN Moved(Undefined)
                ELSE IF ~IsCircular(folders, folder, targetFolderId) THEN Moved(targetFolderId)
                ELSE folders
          /\ last' = [op |-> "dropFolder", id |-> folder.id, target |-> targetFolderId,
                      pre |-> folders]
    /\ UNCHANGED <<memos, currentMemoId, user, googleDriveLoaded, preservedAttributes,
                   isLoading, hasLoaded, token, drive, tasks, loads, dialog, clock, idCounter>>

\* deleteFolder(id) of the store: the folder goes, the folders below it stay.
DeleteFolder(i) ==
    /\ i \in 1..Len(folders)
    /\ LET Kept(f) == f.id # folders[i].id
       IN folders' = SelectSeq(folders, Kept)
    /\ last' = [op |-> "deleteFolder", id |-> folders[i].id]
    /\ UNCHANGED <<memos, currentMemoId, user, googleDriveLoaded, preservedAttributes,
                   isLoading, hasLoaded, token, drive, tasks, loads, dialog, clock, idCounter>>

\* setCurrentMemoId(id) of the store, as a click on a memo of the sidebar,
\* which lists the memos of the user's mode (id its memo's), or the editor's
\* new-file button (null, here 0) calls it: the current memo is set, the memo
\* with the id gets the time as its viewedAt, and no push is started.
SetCurrentMemoId(id) ==
    /\ id \in {0} \cup {memos[i].id : i \in {j \in 1..Len(memos) : memos[j].mode = user.mode}}
    /\ ~dialog.isOpen
    /\ clock < MaxClock
    /\ currentMemoId' = id
    /\ memos' = IF id # 0 THEN setViewed(memos, id, clock) ELSE memos
    /\ clock' = clock + 1
    /\ last' = [op |-> "select", id |-> id, pre |-> memos]
    /\ UNCHANGED <<folders, user, googleDriveLoaded, preservedAttributes, isLoading,
                   hasLoaded, token, drive, tasks, loads, dialog, idCounter>>

\* sidebar.tsx handleDrop of a memo on a folder (or on the root):
\* updateMemo(id, { folderId: targetFolderId || undefined }) for a general memo.
\* The origin of its save tells whether other pushes were in flight then.
HandleDrop(i, targetFolderId) ==
    /\ i \in 1..Len(memos)
    /\ ~dialog.isOpen
    /\ clock < MaxClock
    /\ memos[i].mode = "general"
    /\ LET id == memos[i].id
           updated == updateMemo(memos, id, [folderId |-> targetFolderId], clock)
           Hit(m) == m.id = id
       IN /\ memos' = updated
          /\ Pushes(<<>>, SelectSeq(updated, Hit),
                    IF tasks = <<>> THEN "move" ELSE "moveAmongPushes")
          /\ last' = [op |-> "move", id |-> id, pre |-> memos]
    /\ clock' = clock + 1
    /\ UNCHANGED <<currentMemoId, folders, user, googleDriveLoaded, preservedAttributes,
                   isLoading, hasLoaded, drive, loads, dialog, idCounter>>

-----------------------------------------------------------------------------
(* The steps of the background promises. *)

RemoveAt(seq, i) == SubSeq(seq, 1, i - 1) \o SubSeq(seq, i + 1, Len(seq))

\* The index in d.files of the file with remote id fid, 0 when it is gone
FileIndex(d, fid) ==
    IF \E k \in 1..Len(d.files) : d.files[k].fid = fid
    THEN CHOOSE k \in 1..Len(d.files) : d.files[k].fid = fid
    ELSE 0

\* instance.createFile / createFolder: a new entry, with a new remote id
createFile(d, name, content, parentId, mimeType) ==
    [files |-> Append(d.files, [fid |-> d.nextId, name |-> name, mimeType |-> mimeType,
                                parent |-> parentId, content |-> content]),
     nextId |-> d.nextId + 1]

\* The folders ensureSubFolder's query finds below parentFolderId
SubFoldersNamed(d, parentFolderId, folderName) ==
    LET Match(f) == f.mimeType = FolderMime /\ f.name = folderName
    IN SelectSeq(listFiles(d, parentFolderId), Match)

\* C31, a plausible bug: the folder is created without the search.
ensureSubFolderNoSearch(d, parentFolderId, folderName) ==
    [drive |-> createFile(d, folderName, Unparseable, parentFolderId, FolderMime),
     id |-> d.nextId]

\* ensureSubFolder: the drive afterwards and the id it returns
ensureSubFolder(d, parentFolderId, folderName) ==
    LET existingFolders == SubFoldersNamed(d, parentFolderId, folderName)
    IN IF Len(existingFolders) > 0
       THEN [drive |-> d, id |-> existingFolders[1].fid]
       ELSE [drive |-> createFile(d, folderName, Unparseable, parentFolderId, FolderMime),
             id |-> d.nextId]

\* folders.find(f => f.id === memo.folderId), as a sequence of at most one folder
FolderOfMemo(memo, fs) ==
    LET Match(f) == f.id = GetTok(memo, "folderId")
        found == SelectSeq(fs, Match)
    IN IF memo.mode = "general" /\ GetTok(memo, "folderId") # Undefined /\ found # <<>>
       THEN <<found[1]>>
       ELSE <<>>

\* saveMemo up to targetFolderId: the subfolder of a general memo's folder.
SaveResolve(i) ==
    /\ i \in 1..Len(tasks)
    /\ tasks[i].kind = "save" /\ tasks[i].pc = "resolve"
    /\ token = "valid"
    /\ LET t == tasks[i]
           folder == FolderOfMemo(t.memo, t.folders)
           ensured == IF folder = <<>> THEN [drive |-> drive, id |-> RootId]
                      ELSE ensureSubFolder(drive, RootId, folder[1].name)
       IN /\ drive' = ensured.drive
          /\ tasks' = [tasks EXCEPT ![i] = [t EXCEPT !.pc = "lookup", !.target = ensured.id]]
    /\ last' = [op |-> "saveStep"]
    /\ UNCHANGED <<memos, currentMemoId, folders, user, googleDriveLoaded,
                   preservedAttributes, isLoading, hasLoaded, token, loads, dialog, clock, idCounter>>

\* C25, a plausible bug: the try block is around the loop, and the search
\* ends at the first blob that does not parse.
RECURSIVE FindByIdUntilUnparseable(_, _)
FindByIdUntilUnparseable(jsonFiles, id) ==
    IF jsonFiles = <<>> THEN <<>>
    ELSE IF ~Parses(Head(jsonFiles)) THEN <<>>
    ELSE IF EmbeddedId(Head(jsonFiles)) = id THEN <<Head(jsonFiles)>>
    ELSE FindByIdUntilUnparseable(Tail(jsonFiles), id)

\* The first memo blob of a listing that embeds the id, as a sequence of at most one file
RECURSIVE FindById(_, _)
FindById(jsonFiles, id) ==
    IF jsonFiles = <<>> THEN <<>>
    ELSE IF Parses(Head(jsonFiles)) /\ EmbeddedId(Head(jsonFiles)) = id THEN <<Head(jsonFiles)>>
    ELSE FindById(Tail(jsonFiles), id)

\* saveMemo: list the target folder and look for the blob with the memo's id.
SaveLookup(i) ==
    /\ i \in 1..Len(tasks)
    /\ tasks[i].kind = "save" /\ tasks[i].pc = "lookup"
    /\ token = "valid"
    /\ LET t == tasks[i]
           IsMemoFile(f) == IsMemoFileName(f.name)
           jsonFiles == SelectSeq(listFiles(drive, t.target), IsMemoFile)
           found == FindById(jsonFiles, t.memo.id)
       IN tasks' = [tasks EXCEPT ![i] =
                        IF found = <<>> THEN [t EXCEPT !.pc = "write"]
                        ELSE [t EXCEPT !.pc = "write", !.existing = found[1].fid,
                                       !.existingName = found[1].name]]
    /\ last' = [op |-> "saveStep"]
    /\ UNCHANGED <<memos, currentMemoId, folders, user, googleDriveLoaded,
                   preservedAttributes, isLoading, hasLoaded, token, drive, loads, dialog, clock,
                   idCounter>>

\* saveMemo: update (and rename) the blob found, or create a new one. An
\* update of a blob that is gone throws and the save ends there.
SaveWrite(i) ==
    /\ i \in 1..Len(tasks)
    /\ tasks[i].kind = "save" /\ tasks[i].pc = "write"
    /\ token = "valid"
    /\ LET t == tasks[i]
           fileName == MemoFileName(t.memo)
           content == JsonStringify(t.memo)
           k == FileIndex(drive, t.existing)
       IN drive' =
            IF t.existing = 0
            THEN createFile(drive, fileName, content, t.target, JsonMime)
            ELSE IF k = 0 THEN drive
            ELSE [drive EXCEPT !.files[k] =
                    [@ EXCEPT !.content = content,
                              !.name = IF t.existingName # fileName THEN fileName ELSE @]]
    /\ tasks' = RemoveAt(tasks, i)
    /\ last' = [op |-> IF tasks[i].existing # 0 /\ FileIndex(drive, tasks[i].existing) = 0
                       THEN "pushFailed" ELSE "saveDone",
                memo |-> tasks[i].memo, origin |-> tasks[i].origin]
    /\ UNCHANGED <<memos, currentMemoId, folders, user, googleDriveLoaded,
                   preservedAttributes, isLoading, hasLoaded, token, loads, dialog, clock, idCounter>>

\* searchInFolder of deleteMemo: the folder's memo blobs first, then its subfolders.
RECURSIVE SearchInFolders(_, _, _)
SearchInFolders(d, folderIds, id) ==
    IF folderIds = <<>> THEN <<>>
    ELSE LET files == listFiles(d, Head(folderIds))
             IsMemoFile(f) == IsMemoFileName(f.name)
             IsFolder(f) == f.mimeType = FolderMime
             here == FindById(SelectSeq(files, IsMemoFile), id)
             subFolders == SelectSeq(files, IsFolder)
             below == SearchInFolders(d, [j \in 1..Len(subFolders) |-> subFolders[j].fid], id)
         IN IF here # <<>> THEN here
            ELSE IF below # <<>> THEN below
            ELSE SearchInFolders(d, Tail(folderIds), id)

\* deleteMemo: look for the blob with the memo's id; none is not an error.
DeleteLookup(i) ==
    /\ i \in 1..Len(tasks)
    /\ tasks[i].kind = "delete" /\ tasks[i].pc = "lookup"
    /\ token = "valid"
    /\ LET t == tasks[i]
           foundFile == SearchInFolders(drive, <<RootId>>, t.memo.id)
       IN tasks' = IF foundFile = <<>> THEN RemoveAt(tasks, i)
                   ELSE [tasks EXCEPT ![i] = [t EXCEPT !.pc = "delete",
                                                       !.existing = foundFile[1].fid]]
    /\ last' = [op |-> "deleteStep"]
    /\ UNCHANGED <<memos, currentMemoId, folders, user, googleDriveLoaded,
                   preservedAttributes, isLoading, hasLoaded, token, drive, loads, dialog, clock,
                   idCounter>>

\* deleteMemo: instance.deleteFile(fileToDelete)
DeleteWrite(i) ==
    /\ i \in 1..Len(tasks)
    /\ tasks[i].kind = "delete" /\ tasks[i].pc = "delete"
    /\ token = "valid"
    /\ LET k == FileIndex(drive, tasks[i].existing)
       IN drive' = IF k = 0 THEN drive ELSE [drive EXCEPT !.files = RemoveAt(@, k)]
    /\ tasks' = RemoveAt(tasks, i)
    /\ last' = [op |-> "deleteDone", memo |-> tasks[i].memo]
    /\ UNCHANGED <<memos, currentMemoId, folders, user, googleDriveLoaded,
                   preservedAttributes, isLoading, hasLoaded, token, loads, dialog, clock, idCounter>>

\* A remote call of saveMemo or deleteMemo fails (the network, a 401, a
\* missing token): the catch block logs it and the promise is over.
PushFails(i) ==
    /\ i \in 1..Len(tasks)
    /\ tasks[i].kind \in {"save", "delete"}
    /\ tasks' = RemoveAt(tasks, i)
    /\ last' = [op |-> "pushFailed", memo |-> tasks[i].memo,
                origin |-> IF tasks[i].kind = "save" THEN tasks[i].origin ELSE "delete"]
    /\ UNCHANGED <<memos, currentMemoId, folders, user, googleDriveLoaded,
                   preservedAttributes, isLoading, hasLoaded, token, drive, loads, dialog, clock,
                   idCounter>>

\* The access token reaches its expiry time.
TokenExpires ==
    /\ token = "valid"
    /\ token' = "expired"
    /\ last' = [op |-> "tokenExpires"]
    /\ UNCHANGED <<memos, currentMemoId, folders, user, googleDriveLoaded,
                   preservedAttributes, isLoading, hasLoaded, drive, tasks, loads, dialog, clock,
                   idCounter>>

\* ensureNeisMateFolder, the first call of a push, asks getValidAccessToken
\* for a token when the cached one has expired: a refresh that succeeds
\* stores a new token; one that fails returns null, the cached token stays
\* as it is, and the push ends with "Not authenticated".
GetValidAccessToken(i, refreshed) ==
    /\ i \in 1..Len(tasks)
    /\ \/ tasks[i].kind = "save" /\ tasks[i].pc = "resolve"
       \/ tasks[i].kind = "delete" /\ tasks[i].pc = "lookup"
    /\ token = "expired"
    /\ token' = IF refreshed THEN "valid" ELSE token
    /\ tasks' = IF refreshed THEN tasks ELSE RemoveAt(tasks, i)
    /\ last' = [op |-> IF refreshed THEN "refreshed" ELSE "refreshFailed",
                by |-> "getValidAccessToken"]
    /\ UNCHANGED <<memos, currentMemoId, folders, user, googleDriveLoaded,
                   preservedAttributes, isLoading, hasLoaded, drive, loads, dialog, clock,
                   idCounter>>

\* isAuthenticated(), as checkAuthStatus and the store call it, with an
\* expired token: loadTokensFromStorage tries a refresh and clears the tokens
\* when it fails.
IsAuthenticated(refreshed) ==
    /\ user.isLoggedIn
    /\ token = "expired"
    /\ token' = IF refreshed THEN "valid" ELSE "none"
    /\ last' = [op |-> IF refreshed THEN "refreshed" ELSE "refreshFailed",
                by |-> "isAuthenticated"]
    /\ UNCHANGED <<memos, currentMemoId, folders, user, googleDriveLoaded,
                   preservedAttributes, isLoading, hasLoaded, drive, tasks, loads, dialog,
                   clock, idCounter>>

-----------------------------------------------------------------------------
(* src/components/mode-change-dialog.tsx *)

\* title.split("-")
RECURSIVE SplitDash(_, _, _)
SplitDash(s, part, parts) ==
    IF s = <<>> THEN Append(parts, part)
    ELSE IF Head(s) = "-" THEN SplitDash(Tail(s), <<>>, Append(parts, part))
    ELSE SplitDash(Tail(s), Append(part, Head(s)), parts)

\* The digits a string starts with, as a number
RECURSIVE LeadingDigits(_, _)
LeadingDigits(s, n) ==
    IF s = <<>> \/ ~IsDigit(Head(s)) THEN n
    ELSE LeadingDigits(Tail(s), 10 * n + DigitVal(Head(s)))

\* parseInt(s): NaN (undefined here) when s does not start with a digit
ParseInt(s) ==
    LET t == Trim(s)
    IN IF t = <<>> \/ ~IsDigit(Head(t)) THEN NoNum ELSE LeadingDigits(t, 0)

\* GRADES.includes(part): the part is one grade
IsGrade(part) == Len(part) = 1 /\ \E i \in 1..Len(GRADES) : GRADES[i] = part[1]

IsYear(y) == \E i \in 1..Len(YEARS) : YEARS[i] = y

\* parseTitle: null is [ok |-> FALSE]
parseTitle(title, targetMode) ==
    LET parts == SplitDash(title, <<>>, <<>>)
    IN IF targetMode = "teacher" /\ Len(parts) >= 4
       THEN IF IsYear(ParseInt(parts[1])) /\ IsGrade(parts[2])
            THEN [ok |-> TRUE, year |-> ParseInt(parts[1]), grade |-> parts[2][1],
                  subject |-> parts[3], student |-> parts[4]]
            ELSE [ok |-> FALSE]
       ELSE IF targetMode = "student" /\ Len(parts) >= 2
       THEN IF IsGrade(parts[1])
            THEN [ok |-> TRUE, year |-> NoNum, grade |-> parts[1][1],
                  subject |-> parts[2], student |-> NoStr]
            ELSE [ok |-> FALSE]
       ELSE [ok |-> FALSE]

\* memo.mode === "일반" ? memo.title : memo.internalTitle
CurrentTitle(memo) == IF memo.mode = "general" THEN memo.title ELSE GetStr(memo, "internalTitle")

\* One element of checkAutoConvertPossible's data
ModeChangeDataOf(memo, toMode, attrs) ==
    LET currentTitle == CurrentTitle(memo)
        parsedData == parseTitle(currentTitle, toMode)
        parsedYear == IF parsedData.ok THEN parsedData.year ELSE NoNum
        parsedGrade == IF parsedData.ok THEN parsedData.grade ELSE Undefined
        parsedSubject == IF parsedData.ok THEN parsedData.subject ELSE NoStr
        parsedStudent == IF parsedData.ok THEN parsedData.student ELSE NoStr
    IN [memoId |-> memo.id,
        currentTitle |-> currentTitle,
        content |-> memo.content,
        year |-> NumOr(attrs.year,
                    IF toMode = "teacher" THEN NumOr(parsedYear, DefaultYear) ELSE NoNum),
        grade |-> TokOr(attrs.grade,
                    IF toMode \in {"student", "teacher"} THEN TokOr(parsedGrade, "m1")
                    ELSE Undefined),
        subject |-> StrOr(attrs.subject,
                    IF toMode \in {"student", "teacher"} THEN StrOr(parsedSubject, <<>>)
                    ELSE NoStr),
        student |-> StrOr(attrs.student,
                    IF toMode = "teacher" THEN StrOr(parsedStudent, <<>>) ELSE NoStr),
        title |-> StrOr(attrs.title, IF toMode = "general" THEN currentTitle ELSE NoStr)]

\* s && s.trim().length > 0
NotBlank(s) == s # NoStr /\ s # <<>> /\ Len(Trim(s)) > 0

\* The predicate of canAutoConvert and of validateData for one element
DataComplete(item, toMode) ==
    CASE toMode = "general" -> NotBlank(item.title)
      [] toMode = "student" -> item.grade \notin {Undefined, ""} /\ NotBlank(item.subject)
      [] toMode = "teacher" ->
            /\ item.year \notin {NoNum, 0}
            /\ item.grade \notin {Undefined, ""}
            /\ NotBlank(item.subject)
            /\ NotBlank(item.student)
      [] OTHER -> FALSE

checkAutoConvertPossible(ms, toMode, attrs) ==
    LET data == [i \in 1..Len(ms) |-> ModeChangeDataOf(ms[i], toMode, attrs)]
    IN [data |-> data,
        canAutoConvert |-> \A i \in 1..Len(data) : DataComplete(data[i], toMode)]

validateData(modeChangeData, toMode) ==
    \A i \in 1..Len(modeChangeData) : DataComplete(modeChangeData[i], toMode)

\* The memo performModeChange's map gives for one memo
ConvertedMemo(memo, data, toMode, now) ==
    LET Mine(d) == d.memoId = memo.id
        found == SelectSeq(data, Mine)
        baseProps == [id |-> memo.id, content |-> memo.content, createdAt |-> memo.createdAt,
                      modifiedAt |-> now, viewedAt |-> memo.viewedAt, version |-> memo.version]
    IN IF found = <<>> THEN memo
       ELSE LET memoData == found[1]
            IN CASE toMode = "general" ->
                        Spread(baseProps,
                            [mode |-> "general",
                             title |-> StrOr(memoData.title, memoData.currentTitle)])
                 [] toMode = "student" ->
                        Spread(baseProps,
                            [mode |-> "student",
                             grade |-> memoData.grade,
                             subject |-> memoData.subject,
                             internalTitle |-> GradeStr(memoData.grade) \o <<"-">>
                                 \o OptStr(memoData.subject) \o <<"-">> \o NumStr(memo.version),
                             displayTitle |->
                                 IF memo.version > 1
                                 THEN OptStr(memoData.subject) \o <<"-">> \o NumStr(memo.version)
                                 ELSE memoData.subject])
                 [] toMode = "teacher" ->
                        Spread(baseProps,
                            [mode |-> "teacher",
                             year |-> memoData.year,
                             grade |-> memoData.grade,
                             subject |-> memoData.subject,
                             student |-> memoData.student,
                             internalTitle |-> YearStr(memoData.year) \o <<"-">>
                                 \o GradeStr(memoData.grade) \o <<"-">>
                                 \o OptStr(memoData.subject) \o <<"-">>
                                 \o OptStr(memoData.student) \o <<"-">> \o NumStr(memo.version),
                             displayTitle |-> memoData.student])
                 [] OTHER -> memo

\* C39, a plausible bug: a converted memo starts over as version 1.
performModeChangeAsFirstVersions(ms, data, toMode, now) ==
    [i \in 1..Len(ms) |-> [ConvertedMemo(ms[i], data, toMode, now) EXCEPT !.version = 1]]

\* updatedMemos of performModeChange
performModeChange(ms, data, toMode, now) ==
    [i \in 1..Len(ms) |-> ConvertedMemo(ms[i], data, toMode, now)]

-----------------------------------------------------------------------------
(* Signing in, choosing and changing the mode. *)


\* The editor's form when the mode changes: empty, or holding what was typed.
EmptyForm == [title |-> NoStr, year |-> DefaultYear, grade |-> Undefined,
              subject |-> NoStr, student |-> NoStr]

FormInputs == {EmptyForm}

\* editor.tsx, the effect on user.mode: setPreservedAttributes(currentAttributes)
PreserveForm(attrs, form) == Spread(attrs, form)

DialogClosed == [isOpen |-> FALSE, toMode |-> "none", modeChangeData |-> <<>>]

\* google-auth-button.tsx handleSignIn, oauth-callback.tsx: startAuthFlow
\* leaves the page for the consent screen and the callback page returns with
\* window.location.href = '/', so the application starts anew: the tokens are
\* stored, setUser({ ..., mode: user?.mode, isLoggedIn: true }), the store
\* keeps what partialize persists, and what lives in memory only (the
\* current memo, googleDriveLoaded, the flags of the service, the dialog,
\* the requests in flight) starts from its initial value.
Login ==
    /\ ~user.isLoggedIn
    /\ user' = [isLoggedIn |-> TRUE, mode |-> user.mode]
    /\ token' = "valid"
    /\ currentMemoId' = 0
    /\ googleDriveLoaded' = FALSE
    /\ isLoading' = FALSE
    /\ hasLoaded' = FALSE
    /\ tasks' = <<>>
    /\ loads' = <<>>
    /\ dialog' = DialogClosed
    /\ last' = [op |-> "login"]
    /\ UNCHANGED <<memos, folders, preservedAttributes, drive, clock, idCounter>>

\* mode-selector.tsx handleConfirm, app-layout.tsx checkExistingDataAndMode:
\* setUser({ ...user, mode }); the editor mounts and preserves its empty form.
SelectMode(mode) ==
    /\ user.isLoggedIn
    /\ user.mode = "none"
    /\ user' = [user EXCEPT !.mode = mode]
    /\ preservedAttributes' = PreserveForm(preservedAttributes, EmptyForm)
    /\ last' = [op |-> "selectMode"]
    /\ UNCHANGED <<memos, currentMemoId, folders, googleDriveLoaded, isLoading, hasLoaded,
                   token, drive, tasks, loads, dialog, clock, idCounter>>

\* The changes handleModeChange makes at once, without the dialog
IsDirectChange(currentMode, newMode) ==
    \/ currentMode = "student" /\ newMode = "general"
    \/ currentMode = "teacher" /\ newMode = "general"
    \/ currentMode = "teacher" /\ newMode = "student"

\* convertedMemos of handleModeChange for one memo
DirectlyConverted(memo, currentMode, newMode, now) ==
    LET baseProps == [id |-> memo.id, content |-> memo.content, createdAt |-> memo.createdAt,
                      modifiedAt |-> now, viewedAt |-> memo.viewedAt, version |-> memo.version]
    IN IF newMode = "general"
       THEN Spread(baseProps, [mode |-> "general", title |-> CurrentTitle(memo)])
       ELSE IF currentMode = "teacher" /\ newMode = "student" /\ memo.mode = "teacher"
       THEN Spread(baseProps,
                [mode |-> "student",
                 grade |-> memo.grade,
                 subject |-> memo.subject,
                 internalTitle |-> GradeStr(memo.grade) \o <<"-">> \o memo.subject
                                       \o <<"-">> \o NumStr(memo.version),
                 displayTitle |-> IF memo.version > 1
                                  THEN memo.subject \o <<"-">> \o NumStr(memo.version)
                                  ELSE memo.subject])
       ELSE memo

\* header.tsx handleModeChange, a direct change: setMemos(convertedMemos), setUser.
HandleModeChangeDirect(newMode, form) ==
    /\ user.mode \in Modes /\ newMode \in Modes
    /\ ~dialog.isOpen
    /\ IsDirectChange(user.mode, newMode)
    /\ clock < MaxClock
    /\ memos' = [i \in 1..Len(memos) |-> DirectlyConverted(memos[i], user.mode, newMode, clock)]
    /\ user' = [user EXCEPT !.mode = newMode]
    /\ preservedAttributes' = PreserveForm(preservedAttributes, form)
    /\ clock' = clock + 1
    /\ last' = [op |-> "modeChangeDirect", toMode |-> newMode, pre |-> memos]
    /\ UNCHANGED <<currentMemoId, folders, googleDriveLoaded, isLoading, hasLoaded, token,
                   drive, tasks, loads, dialog, idCounter>>

\* handleModeChange, a change that needs data: the dialog is mounted and its
\* open effect finds that every memo converts by itself: performModeChange(data).
ModeChangeAuto(newMode, form) ==
    /\ user.mode \in Modes /\ newMode \in Modes /\ newMode # user.mode
    /\ ~dialog.isOpen
    /\ ~IsDirectChange(user.mode, newMode)
    /\ clock < MaxClock
    /\ LET checked == checkAutoConvertPossible(memos, newMode, preservedAttributes)
       IN /\ checked.canAutoConvert
          /\ memos' = performModeChange(memos, checked.data, newMode, clock)
    /\ user' = [user EXCEPT !.mode = newMode]
    /\ preservedAttributes' = PreserveForm(preservedAttributes, form)
    /\ clock' = clock + 1
    /\ last' = [op |-> "modeChange", toMode |-> newMode, pre |-> memos]
    /\ UNCHANGED <<currentMemoId, folders, googleDriveLoaded, isLoading, hasLoaded, token,
                   drive, tasks, loads, dialog, idCounter>>

\* handleModeChange, a change that needs data the titles do not give: the
\* open effect calls initializeModeChangeData and the dialog shows.
ModeChangeOpen(newMode) ==
    /\ user.mode \in Modes /\ newMode \in Modes /\ newMode # user.mode
    /\ ~dialog.isOpen
    /\ ~IsDirectChange(user.mode, newMode)
    /\ LET checked == checkAutoConvertPossible(memos, newMode, preservedAttributes)
       IN /\ ~checked.canAutoConvert
          /\ dialog' = [isOpen |-> TRUE, toMode |-> newMode, modeChangeData |-> checked.data]
    /\ last' = [op |-> "modeDialog"]
    /\ UNCHANGED <<memos, currentMemoId, folders, user, googleDriveLoaded,
                   preservedAttributes, isLoading, hasLoaded, token, drive, tasks, loads,
                   clock, idCounter>>

\* What the dialog's inputs of one row can be set to
DialogEdits(toMode) ==
    {<<"subject", sb>> : sb \in SubjectInputs}
        \cup (IF toMode = "teacher" THEN {<<"student", st>> : st \in StudentInputs} ELSE {})

\* updateModeChangeData(index, field, value)
ModeChangeEdit(index, edit) ==
    /\ dialog.isOpen
    /\ index \in 1..Len(dialog.modeChangeData)
    /\ edit \in DialogEdits(dialog.toMode)
    /\ dialog.modeChangeData[index][edit[1]] # edit[2]
    /\ dialog' = [dialog EXCEPT !.modeChangeData[index][edit[1]] = edit[2]]
    /\ last' = [op |-> "modeDialog"]
    /\ UNCHANGED <<memos, currentMemoId, folders, user, googleDriveLoaded,
                   preservedAttributes, isLoading, hasLoaded, token, drive, tasks, loads,
                   clock, idCounter>>

\* handleConfirmModeChange, enabled when validateData() holds:
\* performModeChange(modeChangeData) on the memos of the store.
ModeChangeConfirm(form) ==
    /\ dialog.isOpen
    /\ validateData(dialog.modeChangeData, dialog.toMode)
    /\ clock < MaxClock
    /\ memos' = performModeChange(memos, dialog.modeChangeData, dialog.toMode, clock)
    /\ user' = [user EXCEPT !.mode = dialog.toMode]
    /\ preservedAttributes' = PreserveForm(preservedAttributes, form)
    /\ dialog' = DialogClosed
    /\ clock' = clock + 1
    /\ last' = [op |-> "modeConfirm", toMode |-> dialog.toMode, pre |-> memos,
                data |-> dialog.modeChangeData]
    /\ UNCHANGED <<currentMemoId, folders, googleDriveLoaded, isLoading, hasLoaded, token,
                   drive, tasks, loads, idCounter>>

\* handleDialogClose
ModeChangeCancel ==
    /\ dialog.isOpen
    /\ dialog' = DialogClosed
    /\ last' = [op |-> "modeCancel"]
    /\ UNCHANGED <<memos, currentMemoId, folders, user, googleDriveLoaded,
                   preservedAttributes, isLoading, hasLoaded, token, drive, tasks, loads,
                   clock, idCounter>>

-----------------------------------------------------------------------------
(* The bulk load: header.tsx's effect, loadMemosFromDrive of the store and  *)
(* loadMemos of the service.                                                *)

\* loadMemosFromDrive after the await: what the store makes of the result.
StoreAfterLoad(memosFromDrive, loadedBefore) ==
    [memos |-> IF Len(memosFromDrive) > 0 THEN memosFromDrive ELSE memos,
     googleDriveLoaded |-> IF Len(memosFromDrive) > 0 THEN TRUE
                           ELSE IF ~loadedBefore THEN TRUE
                           ELSE googleDriveLoaded]

\* The effect of header.tsx asks for the memos and loadMemos starts: neither
\* flag is set, isLoading becomes true and the remote calls are in flight.
LoadRequest ==
    /\ user.isLoggedIn /\ ~googleDriveLoaded
    /\ ~isLoading /\ ~hasLoaded
    /\ Len(loads) < MaxLoads
    /\ isLoading' = TRUE
    /\ loads' = Append(loads, LoadTask(googleDriveLoaded))
    /\ last' = [op |-> "loadRequest"]
    /\ UNCHANGED <<memos, currentMemoId, folders, user, googleDriveLoaded,
                   preservedAttributes, hasLoaded, token, drive, tasks, dialog, clock,
                   idCounter>>

\* The effect asks again while isLoading or hasLoaded is set: loadMemos
\* returns [] without a remote call and the store goes on with that result.
DuplicateLoadRequest ==
    /\ user.isLoggedIn /\ ~googleDriveLoaded
    /\ isLoading \/ hasLoaded
    /\ LET after == StoreAfterLoad(<<>>, googleDriveLoaded)
       IN /\ memos' = after.memos
          /\ googleDriveLoaded' = after.googleDriveLoaded
    /\ last' = [op |-> "duplicateLoadRequest", wasLoading |-> isLoading,
                wasLoaded |-> hasLoaded, storeLoaded |-> googleDriveLoaded,
                drive |-> drive, loads |-> loads, pre |-> memos]
    /\ UNCHANGED <<currentMemoId, folders, user, preservedAttributes, isLoading, hasLoaded,
                   token, drive, tasks, loads, dialog, clock, idCounter>>

\* loadMemos ends well: hasLoaded, isLoading off, and the store takes the
\* memos.  Its remote calls were answered while the token was good: now, or
\* before the sign-out for a call made in a session that is over.  A dialog
\* that is open sees the new memos: its open effect runs again and converts
\* them when every one converts by itself.
LoadComplete(i) ==
    /\ i \in 1..Len(loads)
    /\ token = "valid" \/ loads[i].stale
    /\ LET memosFromDrive == LoadedMemos(drive)
           after == StoreAfterLoad(memosFromDrive, loads[i].loadedBefore)
           again == /\ dialog.isOpen
                    /\ Len(memosFromDrive) > 0
                    /\ checkAutoConvertPossible(after.memos, dialog.toMode,
                                                preservedAttributes).canAutoConvert
       IN /\ again => clock < MaxClock
          /\ memos' = IF again
                      THEN performModeChange(after.memos,
                               checkAutoConvertPossible(after.memos, dialog.toMode,
                                                        preservedAttributes).data,
                               dialog.toMode, clock)
                      ELSE after.memos
          /\ user' = IF again THEN [user EXCEPT !.mode = dialog.toMode] ELSE user
          /\ dialog' = IF again THEN DialogClosed ELSE dialog
          /\ clock' = IF again THEN clock + 1 ELSE clock
          /\ googleDriveLoaded' = after.googleDriveLoaded
          /\ last' = [op |-> "loadComplete", loaded |-> memosFromDrive, pre |-> memos,
                      stale |-> loads[i].stale]
    /\ hasLoaded' = TRUE
    /\ isLoading' = FALSE
    /\ loads' = RemoveAt(loads, i)
    /\ UNCHANGED <<currentMemoId, folders, preservedAttributes, token, drive, tasks,
                   idCounter>>

\* C36, a plausible bug: isLoading is turned off where loadMemos ends well
\* and not in a finally block, so a load that fails leaves it on.
LoadFailsKeepsLatch(i) ==
    /\ i \in 1..Len(loads)
    /\ LET after == StoreAfterLoad(<<>>, loads[i].loadedBefore)
       IN /\ memos' = after.memos
          /\ googleDriveLoaded' = after.googleDriveLoaded
    /\ loads' = RemoveAt(loads, i)
    /\ last' = [op |-> "loadFailed", stale |-> loads[i].stale, pre |-> memos]
    /\ UNCHANGED <<currentMemoId, folders, user, preservedAttributes, isLoading, hasLoaded,
                   token, drive, tasks, dialog, clock, idCounter>>

\* A remote call of loadMemos throws: the catch block returns [], the
\* finally block turns isLoading off, and the store goes on with [].
LoadFails(i) ==
    /\ i \in 1..Len(loads)
    /\ LET after == StoreAfterLoad(<<>>, loads[i].loadedBefore)
       IN /\ memos' = after.memos
          /\ googleDriveLoaded' = after.googleDriveLoaded
    /\ isLoading' = FALSE
    /\ loads' = RemoveAt(loads, i)
    /\ last' = [op |-> "loadFailed", stale |-> loads[i].stale, pre |-> memos]
    /\ UNCHANGED <<currentMemoId, folders, user, preservedAttributes, hasLoaded, token,
                   drive, tasks, dialog, clock, idCounter>>

\* C14, a plausible bug: signing out clears the tokens and the user and
\* leaves the flags of the service as they are.
SignOutKeepsFlags ==
    /\ user.isLoggedIn
    /\ user' = [isLoggedIn |-> FALSE, mode |-> "none"]
    /\ googleDriveLoaded' = FALSE
    /\ token' = "none"
    /\ loads' = [i \in 1..Len(loads) |-> [loads[i] EXCEPT !.stale = TRUE]]
    /\ last' = [op |-> "signOut"]
    /\ UNCHANGED <<memos, currentMemoId, folders, preservedAttributes, isLoading, hasLoaded,
                   drive, tasks, dialog, clock, idCounter>>

\* user-profile-menu.tsx handleLogout: signOut() of the service clears the
\* tokens and both flags, setUser(null) of the store resets the flags again
\* and googleDriveLoaded.  The loads in flight are not told.
SignOut ==
    /\ user.isLoggedIn
    /\ user' = [isLoggedIn |-> FALSE, mode |-> "none"]
    /\ googleDriveLoaded' = FALSE
    /\ token' = "none"
    /\ isLoading' = FALSE
    /\ hasLoaded' = FALSE
    /\ loads' = [i \in 1..Len(loads) |-> [loads[i] EXCEPT !.stale = TRUE]]
    /\ last' = [op |-> "signOut"]
    /\ UNCHANGED <<memos, currentMemoId, folders, preservedAttributes, drive, tasks, dialog,
                   clock, idCounter>>

\* GoogleDriveService.forceReload(): resetLoadingStates()
ForceReload ==
    /\ isLoading' = FALSE
    /\ hasLoaded' = FALSE
    /\ last' = [op |-> "forceReload"]
    /\ UNCHANGED <<memos, currentMemoId, folders, user, googleDriveLoaded,
                   preservedAttributes, token, drive, tasks, loads, dialog, clock, idCounter>>

-----------------------------------------------------------------------------
(* The application. *)

EmptyDrive == [files |-> <<>>, nextId |-> 1]

Init ==
    /\ memos = <<>>
    /\ currentMemoId = 0
    /\ folders = InitialFolders
    /\ user = [isLoggedIn |-> FALSE, mode |-> "none"]
    /\ googleDriveLoaded = FALSE
    /\ preservedAttributes = NoAttributes
    /\ isLoading = FALSE
    /\ hasLoaded = FALSE
    /\ token = "none"
    /\ drive = EmptyDrive
    /\ tasks = <<>>
    /\ loads = <<>>
    /\ dialog = DialogClosed
    /\ clock = 1
    /\ idCounter = 0
    /\ last = [op |-> "init"]

\* Signing in and choosing the mode
Session ==
    \/ Login
    \/ \E mode \in Modes : SelectMode(mode)

\* The handlers that change the local collection
Local ==
    \/ \E f \in FolderIdInputs : HandleCreateNewMemo(f)
    \/ \E options \in EditorOptions(user.mode) : HandleSaveNew("text", options)
    \/ \E i \in 1..MaxMemos : HandleNewVersion(i)
    \/ \E i \in 1..MaxMemos : HandleDuplicate(i)
    \/ \E i \in 1..MaxMemos : HandleDelete(i)
    \/ \E i \in 1..MaxMemos : \E content \in Contents : HandleUpdateContent(i, content)
    \/ \E i \in 1..MaxMemos : \E f \in FolderIdInputs : HandleDrop(i, f)

\* The steps of the saveMemo and deleteMemo promises
Push ==
    \/ \E i \in 1..MaxTasks : SaveResolve(i)
    \/ \E i \in 1..MaxTasks : SaveLookup(i)
    \/ \E i \in 1..MaxTasks : SaveWrite(i)
    \/ \E i \in 1..MaxTasks : DeleteLookup(i)
    \/ \E i \in 1..MaxTasks : DeleteWrite(i)
    \/ \E i \in 1..MaxTasks : PushFails(i)
    \/ TokenExpires

\* The bulk load
Load ==
    \/ LoadRequest
    \/ DuplicateLoadRequest
    \/ \E i \in 1..Len(loads) : LoadComplete(i)
    \/ \E i \in 1..Len(loads) : LoadFails(i)

\* Changing the mode
ModeChange ==
    \/ \E newMode \in Modes : \E form \in FormInputs : HandleModeChangeDirect(newMode, form)
    \/ \E newMode \in Modes : \E form \in FormInputs : ModeChangeAuto(newMode, form)
    \/ \E newMode \in Modes : ModeChangeOpen(newMode)
    \/ \E index \in 1..MaxMemos : \E edit \in DialogEdits(dialog.toMode) :
            ModeChangeEdit(index, edit)
    \/ \E form \in FormInputs : ModeChangeConfirm(form)
    \/ ModeChangeCancel

NextStore == Session \/ Local \/ Push

\* The store, its handlers and its pushes, from a first start
SpecStore == Init /\ [][NextStore]_vars

\* The remote store a session can find: nothing, or a memo an earlier
\* session saved.
OldMemo ==
    [id |-> 100, content |-> "text", createdAt |-> 0, modifiedAt |-> 0, viewedAt |-> 0,
     version |-> 1, mode |-> "general", title |-> <<"old">>]

OldDrive ==
    [files |-> <<[fid |-> 1, name |-> MemoFileName(OldMemo), mimeType |-> JsonMime,
                  parent |-> RootId, content |-> JsonStringify(OldMemo)]>>,
     nextId |-> 2]

RemoteInputs == {EmptyDrive, OldDrive}

InitSync ==
    /\ memos = <<>>
    /\ currentMemoId = 0
    /\ folders = InitialFolders
    /\ user = [isLoggedIn |-> FALSE, mode |-> "none"]
    /\ googleDriveLoaded = FALSE
    /\ preservedAttributes = NoAttributes
    /\ isLoading = FALSE
    /\ hasLoaded = FALSE
    /\ token = "none"
    /\ drive \in RemoteInputs
    /\ tasks = <<>>
    /\ loads = <<>>
    /\ dialog = DialogClosed
    /\ clock = 1
    /\ idCounter = 0
    /\ last = [op |-> "init"]

\* The editor's options whose title, if any, is one parseTitle can read
ParseableOptions(mode) ==
    {options \in EditorOptions(mode) : options.title \in {<<>>, <<"m1", "-", "math">>}}

\* The creating handlers and the save pushes, the bulk load and the mode change
NextSync ==
    \/ Session
    \/ \E f \in FolderIdInputs : HandleCreateNewMemo(f)
    \/ \E options \in ParseableOptions(user.mode) : HandleSaveNew("text", options)
    \/ \E i \in 1..MaxTasks : SaveResolve(i)
    \/ \E i \in 1..MaxTasks : SaveLookup(i)
    \/ \E i \in 1..MaxTasks : SaveWrite(i)
    \/ \E i \in 1..MaxTasks : PushFails(i)
    \/ Load
    \/ ModeChange

\* The bulk load and the mode change, from the start of a session
SpecSync == InitSync /\ [][NextSync]_vars

\* Signing in and out, choosing the mode, and the bulk load
NextSession ==
    \/ Session
    \/ SignOut
    \/ Load

\* The bulk load over the sessions of a user: signing in and signing out
SpecSession == InitSync /\ [][NextSession]_vars

\* The same with forceReload, which no component calls
SpecReload == InitSync /\ [][NextSession \/ ForceReload]_vars

-----------------------------------------------------------------------------
(* The functions of memo-utils.ts and of the store on collections that are  *)
(* not built step by step: a collection the bulk load brought in can hold   *)
(* any versions in any group.                                               *)

MaxVersion == MaxMemos + 1

\* A memo of a mode with a version: in the general mode with any of the
\* titles, in the other modes with the names of its fields and version.
ItemsOf(id) ==
    LET stamps == [id |-> id, content |-> "text", createdAt |-> 0, modifiedAt |-> 0,
                   viewedAt |-> 0]
    IN {Spread(stamps, [mode |-> "general", version |-> v, title |-> t]) :
            v \in 1..MaxVersion,
            t \in {<<"m1", "-", "math">>, <<"m1", "-", "math", "-", "2">>,
                   <<"m1", "-", "math", "-", "3">>}}
       \cup
       {Spread(stamps,
            [mode |-> "student", version |-> v, grade |-> "m1", subject |-> <<"math">>,
             internalTitle |-> createInternalTitle("student",
                 [grade |-> "m1", subject |-> <<"math">>, version |-> v]),
             displayTitle |-> createDisplayTitle("student",
                 [subject |-> <<"math">>, version |-> v])]) : v \in 1..MaxVersion}
       \cup
       {Spread(stamps,
            [mode |-> "teacher", version |-> v, year |-> DefaultYear, grade |-> "m1",
             subject |-> <<"math">>, student |-> st,
             internalTitle |-> createInternalTitle("teacher",
                 [year |-> DefaultYear, grade |-> "m1", subject |-> <<"math">>,
                  student |-> st, version |-> v]),
             displayTitle |-> createDisplayTitle("teacher", [student |-> st])]) :
            v \in 1..MaxVersion, st \in {<<"kim">>, <<"lee">>}}

\* The collections of n memos with the ids 1..n
RECURSIVE CollectionsOf(_)
CollectionsOf(n) ==
    IF n = 0 THEN {<<>>}
    ELSE {Append(ms, m) : ms \in CollectionsOf(n - 1), m \in ItemsOf(n)}

InitFn ==
    /\ \E n \in 0..MaxMemos : memos \in CollectionsOf(n) /\ idCounter = n
    /\ currentMemoId = 0
    /\ folders = InitialFolders
    /\ user = [isLoggedIn |-> FALSE, mode |-> "none"]
    /\ googleDriveLoaded = FALSE
    /\ preservedAttributes = NoAttributes
    /\ isLoading = FALSE
    /\ hasLoaded = FALSE
    /\ token = "none"
    /\ drive = EmptyDrive
    /\ tasks = <<>>
    /\ loads = <<>>
    /\ dialog = DialogClosed
    /\ clock = MaxClock - 1
    /\ last = [op |-> "init"]

\* A memo of each mode that is not in the collection: its group can be empty.
FreshTargets ==
    {m \in ItemsOf(MaxMemos + 1) :
        /\ m.version = 1
        /\ m.mode = "general" => m.title = <<"m1", "-", "math">>
        /\ m.mode = "teacher" => m.student = <<"kim">>}

\* getNextAvailableVersion(targetMemo, memos) is called and its result kept.
ApplyNextVersion(targetMemo) ==
    /\ last.op = "init"
    /\ last' = [op |-> "nextVersion", target |-> targetMemo,
                result |-> getNextAvailableVersion(targetMemo, memos)]
    /\ UNCHANGED <<memos, currentMemoId, folders, user, googleDriveLoaded,
                   preservedAttributes, isLoading, hasLoaded, token, drive, tasks, loads,
                   dialog, clock, idCounter>>

NextFn ==
    \/ \E targetMemo \in Range(memos) \cup FreshTargets : ApplyNextVersion(targetMemo)
    \/ \E i \in 1..MaxMemos : HandleNewVersion(i)
    \/ \E i \in 1..MaxMemos : HandleDelete(i)
    \/ \E i \in 1..MaxMemos : HandleUpdateContent(i, "")

\* The functions applied to the collections
SpecFn == InitFn /\ [][NextFn]_vars

-----------------------------------------------------------------------------
(* The deletes in a version group of MaxMemos memos, each saved on the      *)
(* drive, with the pushes they start; no remote call fails.                 *)

\* The group a user makes with the sidebar's new memo and then a new version
\* of it, again and again: n memos with the ids and the versions 1..n.
RECURSIVE GroupOf(_, _)
GroupOf(mode, n) ==
    IF n = 1 THEN <<createNewMemo(mode, "text", SidebarOptions, 1, 0)>>
    ELSE LET group == GroupOf(mode, n - 1)
         IN Append(group, createNewVersion(group[1], group, n, 0))

InitCascade ==
    /\ \E mode \in Modes :
            /\ memos = GroupOf(mode, MaxMemos)
            /\ user = [isLoggedIn |-> TRUE, mode |-> mode]
    /\ currentMemoId = 0
    /\ folders = InitialFolders
    /\ googleDriveLoaded = TRUE
    /\ preservedAttributes = NoAttributes
    /\ isLoading = FALSE
    /\ hasLoaded = TRUE
    /\ token = "valid"
    /\ drive = [files |-> [k \in 1..Len(memos) |->
                              [fid |-> k, name |-> MemoFileName(memos[k]),
                               mimeType |-> JsonMime, parent |-> RootId,
                               content |-> JsonStringify(memos[k])]],
                nextId |-> Len(memos) + 1]
    /\ tasks = <<>>
    /\ loads = <<>>
    /\ dialog = DialogClosed
    /\ clock = 1
    /\ idCounter = MaxMemos
    /\ last = [op |-> "init"]

\* The deletes and the steps of their pushes
SpecCascade ==
    InitCascade /\ [][\/ \E i \in 1..MaxMemos : HandleDelete(i)
                      \/ \E i \in 1..MaxTasks : SaveResolve(i)
                      \/ \E i \in 1..MaxTasks : SaveLookup(i)
                      \/ \E i \in 1..MaxTasks : SaveWrite(i)
                      \/ \E i \in 1..MaxTasks : DeleteLookup(i)
                      \/ \E i \in 1..MaxTasks : DeleteWrite(i)]_vars

\* A signed-in user of the general mode with no memo yet, and the memos made
\* from there: MaxMemos creates fit in.
InitTitle ==
    /\ memos = <<>>
    /\ currentMemoId = 0
    /\ folders = InitialFolders
    /\ user = [isLoggedIn |-> TRUE, mode |-> "general"]
    /\ googleDriveLoaded = TRUE
    /\ preservedAttributes = NoAttributes
    /\ isLoading = FALSE
    /\ hasLoaded = TRUE
    /\ token = "valid"
    /\ drive = EmptyDrive
    /\ tasks = <<>>
    /\ loads = <<>>
    /\ dialog = DialogClosed
    /\ clock = 0
    /\ idCounter = 0
    /\ last = [op |-> "init"]

SpecTitle ==
    InitTitle /\ [][\/ HandleCreateNewMemo(Undefined)
                    \/ \E options \in EditorOptions(user.mode) : HandleSaveNew("text", options)
                    \/ \E i \in 1..MaxMemos : HandleNewVersion(i)
                    \/ \E i \in 1..MaxMemos : HandleDuplicate(i)
                    \/ \E i \in 1..MaxTasks : SaveResolve(i)
                    \/ \E i \in 1..MaxTasks : SaveLookup(i)
                    \/ \E i \in 1..MaxTasks : SaveWrite(i)]_vars

\* The folders of the sidebar: made, dropped on one another and deleted
SpecFolders ==
    InitTitle /\ [][\/ \E id \in FolderIdPool : \E f \in {Undefined} \cup FolderIdPool :
                          HandleCreateNewFolder(id, f)
                    \/ \E i \in 1..MaxFolders : \E f \in {Undefined} \cup FolderIdPool :
                          HandleDropFolder(i, f)
                    \/ \E i \in 1..MaxFolders : DeleteFolder(i)]_vars

\* The application starts for a signed-in user whose memos are on the Drive:
\* the store holds what partialize persisted, nothing is loaded yet.
InitEditor ==
    /\ \E mode \in {"student", "teacher"} :
            /\ memos = GroupOf(mode, 1)
            /\ user = [isLoggedIn |-> TRUE, mode |-> mode]
    /\ currentMemoId = 0
    /\ folders = InitialFolders
    /\ googleDriveLoaded = FALSE
    /\ preservedAttributes = NoAttributes
    /\ isLoading = FALSE
    /\ hasLoaded = FALSE
    /\ token = "valid"
    /\ drive = [files |-> [k \in 1..Len(memos) |->
                              [fid |-> k, name |-> MemoFileName(memos[k]),
                               mimeType |-> JsonMime, parent |-> RootId,
                               content |-> JsonStringify(memos[k])]],
                nextId |-> Len(memos) + 1]
    /\ tasks = <<>>
    /\ loads = <<>>
    /\ dialog = DialogClosed
    /\ clock = 0
    /\ idCounter = 1
    /\ last = [op |-> "init"]

\* The editor's save of the current memo, with the selection, the changes
\* of the mode, the bulk load and the sessions around it
SpecEditor ==
    InitEditor /\ [][\/ Session
                     \/ SignOut
                     \/ Load
                     \/ \E newMode \in Modes : \E form \in FormInputs :
                            HandleModeChangeDirect(newMode, form)
                     \/ \E newMode \in Modes : \E form \in FormInputs :
                            ModeChangeAuto(newMode, form)
                     \/ \E form \in EditorOptions(user.mode) :
                            HandleSaveExisting("text", form)
                     \/ \E id \in 0..MaxMemos : SetCurrentMemoId(id)
                     \/ \E i \in 1..MaxTasks : PushFails(i)]_vars

\* Every operation on the local collection, the bulk load of a store that
\* holds one memo or none, and the mode change; the pushes all fail.
SpecIds ==
    InitSync /\ [][\/ Session
                   \/ HandleCreateNewMemo(Undefined)
                   \/ \E i \in 1..MaxMemos : HandleNewVersion(i)
                   \/ \E i \in 1..MaxMemos : HandleDuplicate(i)
                   \/ \E i \in 1..MaxMemos : HandleDelete(i)
                   \/ \E i \in 1..MaxMemos : HandleUpdateContent(i, "text")
                   \/ \E id \in 0..MaxMemos : SetCurrentMemoId(id)
                   \/ \E i \in 1..MaxTasks : PushFails(i)
                   \/ Load
                   \/ ModeChange]_vars

\* The deletes and their pushes while the access token expires and is
\* refreshed, or fails to be
SpecCredential ==
    InitCascade /\ [][\/ \E i \in 1..MaxMemos : HandleDelete(i)
                      \/ Push
                      \/ \E i \in 1..MaxTasks : \E refreshed \in BOOLEAN :
                            GetValidAccessToken(i, refreshed)
                      \/ \E refreshed \in BOOLEAN : IsAuthenticated(refreshed)]_vars

-----------------------------------------------------------------------------
(* The bulk load of a remote store that holds anything: blobs in the root   *)
(* folder and in a first-level folder, several with the same embedded id,   *)
(* some that do not parse, some without an id, some with the reserved name  *)
(* or without the .json extension.                                          *)

MaxFiles == 3

\* What a blob can hold: a memo with id 1 or 2 and one of two contents, a
\* JSON object without an id, or text that is not JSON.
BlobContents ==
    {JsonStringify([id |-> id, content |-> c, createdAt |-> 0, modifiedAt |-> 0,
                    viewedAt |-> 0, version |-> 1, mode |-> "general", title |-> <<"a">>]) :
        id \in {1, 2}, c \in Contents}
    \cup {[ok |-> TRUE, value |-> [content |-> "text"]], Unparseable}

BlobNames == {<<"a", ".json">>, UserConfigName, <<"a", ".txt">>}

\* The first-level folder, with remote id 1
DocsFolder == [fid |-> 1, name |-> <<"docs">>, mimeType |-> FolderMime, parent |-> RootId,
               content |-> Unparseable]

\* The drives with the folder and n blobs, with the remote ids 2..n+1
RECURSIVE DrivesOf(_)
DrivesOf(n) ==
    IF n = 0 THEN {<<DocsFolder>>}
    ELSE {Append(fs, [fid |-> n + 1, name |-> nm, mimeType |-> JsonMime, parent |-> p,
                      content |-> c]) :
            fs \in DrivesOf(n - 1), nm \in BlobNames, p \in {RootId, DocsFolder.fid},
            c \in BlobContents}

InitLoad ==
    /\ memos = <<>>
    /\ currentMemoId = 0
    /\ folders = InitialFolders
    /\ user = [isLoggedIn |-> TRUE, mode |-> "general"]
    /\ googleDriveLoaded = FALSE
    /\ preservedAttributes = NoAttributes
    /\ isLoading = FALSE
    /\ hasLoaded = FALSE
    /\ token = "valid"
    /\ \E n \in 0..MaxFiles : \E fs \in DrivesOf(n) : drive = [files |-> fs, nextId |-> n + 2]
    /\ tasks = <<>>
    /\ loads = <<>>
    /\ dialog = DialogClosed
    /\ clock = 1
    /\ idCounter = 0
    /\ last = [op |-> "init"]

\* The bulk load of any remote store
SpecLoad == InitLoad /\ [][Load]_vars

\* A signed-in user with one memo in the local collection and a remote store
\* of the folder and up to MaxFiles - 1 blobs of any name and content: the
\* memo is updated and deleted, its pushes look for its blob, and the bulk
\* load reads the store.
InitLookup ==
    /\ \E c \in Contents :
         memos = <<[id |-> 1, content |-> c, createdAt |-> 0, modifiedAt |-> 0,
                    viewedAt |-> 0, version |-> 1, mode |-> "general", title |-> <<"a">>]>>
    /\ currentMemoId = 0
    /\ folders = InitialFolders
    /\ user = [isLoggedIn |-> TRUE, mode |-> "general"]
    /\ googleDriveLoaded = FALSE
    /\ preservedAttributes = NoAttributes
    /\ isLoading = FALSE
    /\ hasLoaded = FALSE
    /\ token = "valid"
    /\ \E n \in 0..(MaxFiles - 1) : \E fs \in DrivesOf(n) : drive = [files |-> fs, nextId |-> n + 2]
    /\ tasks = <<>>
    /\ loads = <<>>
    /\ dialog = DialogClosed
    /\ clock = MaxClock - 1
    /\ idCounter = 1
    /\ last = [op |-> "init"]

SpecLookup ==
    InitLookup /\ [][\/ \E content \in Contents : HandleUpdateContent(1, content)
                     \/ HandleDelete(1)
                     \/ \E i \in 1..MaxTasks : SaveResolve(i)
                     \/ \E i \in 1..MaxTasks : SaveLookup(i)
                     \/ \E i \in 1..MaxTasks : SaveWrite(i)
                     \/ \E i \in 1..MaxTasks : DeleteLookup(i)
                     \/ \E i \in 1..MaxTasks : DeleteWrite(i)
                     \/ Load]_vars

-----------------------------------------------------------------------------
(* The folders of the remote store: ensureNeisMateFolder and                *)
(* ensureSubFolder called one after the other, while other clients of the   *)
(* account create entries and move entries to the trash.  Here drive.files  *)
(* lists the whole drive without the trash, and the parent of an entry at   *)
(* the top of the drive is NoNum.                                           *)

MaxRemoteId == 5

NeisMateName == <<"NEIS Mate">>

\* The folders ensureNeisMateFolder's query finds, anywhere in the drive
NeisMateFolders(d) ==
    LET Match(f) == f.mimeType = FolderMime /\ f.name = NeisMateName
    IN SelectSeq(d.files, Match)

\* ensureNeisMateFolder: the drive afterwards and the id it returns
ensureNeisMateFolder(d) ==
    LET existingFolders == NeisMateFolders(d)
    IN IF Len(existingFolders) > 0
       THEN [drive |-> d, id |-> existingFolders[1].fid]
       ELSE [drive |-> createFile(d, NeisMateName, Unparseable, NoNum, FolderMime),
             id |-> d.nextId]

EnsureNeisMateFolder ==
    /\ token = "valid"
    /\ LET ensured == ensureNeisMateFolder(drive)
       IN /\ Len(ensured.drive.files) <= MaxFiles
          /\ ensured.drive.nextId <= MaxRemoteId + 1
          /\ drive' = ensured.drive
          /\ last' = [op |-> "ensureNeisMateFolder", id |-> ensured.id, pre |-> drive]
    /\ UNCHANGED <<memos, currentMemoId, folders, user, googleDriveLoaded,
                   preservedAttributes, isLoading, hasLoaded, token, tasks, loads, dialog,
                   clock, idCounter>>

EnsureSubFolder(parentFolderId, folderName) ==
    /\ token = "valid"
    /\ LET ensured == ensureSubFolder(drive, parentFolderId, folderName)
       IN /\ Len(ensured.drive.files) <= MaxFiles
          /\ ensured.drive.nextId <= MaxRemoteId + 1
          /\ drive' = ensured.drive
          /\ last' = [op |-> "ensureSubFolder", id |-> ensured.id, pre |-> drive,
                      parent |-> parentFolderId, name |-> folderName]
    /\ UNCHANGED <<memos, currentMemoId, folders, user, googleDriveLoaded,
                   preservedAttributes, isLoading, hasLoaded, token, tasks, loads, dialog,
                   clock, idCounter>>

\* seq with e put after its first p elements
InsertAt(seq, p, e) == SubSeq(seq, 1, p) \o <<e>> \o SubSeq(seq, p + 1, Len(seq))

\* The remote ids of the folders of a drive
FolderIds(d) == {d.files[k].fid : k \in {j \in 1..Len(d.files) : d.files[j].mimeType = FolderMime}}

\* Another client of the account creates an entry; the listings show it
\* at any place.
OtherClientCreates(name, parentId, mimeType, p) ==
    /\ Len(drive.files) < MaxFiles
    /\ drive.nextId <= MaxRemoteId
    /\ parentId \in {NoNum} \cup FolderIds(drive)
    /\ p \in 0..Len(drive.files)
    /\ drive' = [files |-> InsertAt(drive.files, p,
                                   [fid |-> drive.nextId, name |-> name,
                                    mimeType |-> mimeType, parent |-> parentId,
                                    content |-> Unparseable]),
                 nextId |-> drive.nextId + 1]
    /\ last' = [op |-> "otherClient"]
    /\ UNCHANGED <<memos, currentMemoId, folders, user, googleDriveLoaded,
                   preservedAttributes, isLoading, hasLoaded, token, tasks, loads, dialog,
                   clock, idCounter>>

\* An entry is moved to the trash: the queries (trashed=false) do not find it.
MoveToTrash(k) ==
    /\ k \in 1..Len(drive.files)
    /\ drive' = [drive EXCEPT !.files = RemoveAt(drive.files, k)]
    /\ last' = [op |-> "trash"]
    /\ UNCHANGED <<memos, currentMemoId, folders, user, googleDriveLoaded,
                   preservedAttributes, isLoading, hasLoaded, token, tasks, loads, dialog,
                   clock, idCounter>>

EnsureNames == {NeisMateName, <<"docs">>}

SpecEnsure ==
    InitTitle /\ [][\/ EnsureNeisMateFolder
                    \/ \E parentFolderId \in 1..MaxRemoteId : \E folderName \in EnsureNames :
                            /\ parentFolderId \in FolderIds(drive)
                            /\ EnsureSubFolder(parentFolderId, folderName)
                    \/ \E name \in EnsureNames : \E parentId \in {NoNum} \cup (1..MaxRemoteId) :
                       \E mimeType \in {FolderMime, JsonMime} : \E p \in 0..MaxFiles :
                            OtherClientCreates(name, parentId, mimeType, p)
                    \/ \E k \in 1..MaxFiles : MoveToTrash(k)]_vars

-----------------------------------------------------------------------------
(* loadMemosFromDrive called by any caller: the header's effect calls it    *)
(* while the store is not marked loaded, the action of the store itself     *)
(* has no such condition.                                                   *)

\* SyncState of the service: loadMemos tests isLoading first, then hasLoaded.
SyncState ==
    IF isLoading THEN "loading" ELSE IF hasLoaded THEN "loaded" ELSE "not-started"

\* C32, a plausible bug: loadMemos tests isLoading and not hasLoaded.
LoadBlockedWhileLoading(loading, loaded) == loading

\* The two early returns of loadMemos
LoadBlocked(loading, loaded) == loading \/ loaded

\* store.loadMemosFromDrive() of a signed-in user: loadMemos returns [] at
\* once and the store goes on with it, or the enumeration starts.
LoadMemosFromDrive ==
    /\ user.isLoggedIn
    /\ IF LoadBlocked(isLoading, hasLoaded)
       THEN /\ LET after == StoreAfterLoad(<<>>, googleDriveLoaded)
               IN /\ memos' = after.memos
                  /\ googleDriveLoaded' = after.googleDriveLoaded
            /\ UNCHANGED <<isLoading, loads>>
       ELSE /\ Len(loads) < MaxLoads
            /\ isLoading' = TRUE
            /\ loads' = Append(loads, LoadTask(googleDriveLoaded))
            /\ UNCHANGED <<memos, googleDriveLoaded>>
    /\ last' = [op |-> "loadMemosFromDrive", state |-> SyncState, pre |-> memos,
                returned |-> <<>>, started |-> ~LoadBlocked(isLoading, hasLoaded)]
    /\ UNCHANGED <<currentMemoId, folders, user, preservedAttributes, hasLoaded, token,
                   drive, tasks, dialog, clock, idCounter>>

SpecRequest == InitSync /\ [][NextSession \/ LoadMemosFromDrive]_vars

-----------------------------------------------------------------------------
(* The saves a signed-in user's creates, updates and moves between folders  *)
(* start, in every interleaving of their steps; no remote call fails and    *)
(* the token stays good.                                                    *)

SpecPushes ==
    InitTitle /\ [][\/ \E f \in FolderIdInputs : HandleCreateNewMemo(f)
                    \/ \E i \in 1..MaxMemos : HandleUpdateContent(i, "text")
                    \/ \E i \in 1..MaxMemos : \E f \in FolderIdInputs : HandleDrop(i, f)
                    \/ \E i \in 1..MaxTasks : SaveResolve(i)
                    \/ \E i \in 1..MaxTasks : SaveLookup(i)
                    \/ \E i \in 1..MaxTasks : SaveWrite(i)]_vars

-----------------------------------------------------------------------------
(* What the user does while the bulk load is in flight.  The application    *)
(* has started for a signed-in user whose store holds one memo, saved on    *)
(* the drive, and the header's effect, which runs when the header mounts,   *)
(* has called loadMemosFromDrive.  No remote call of a push fails.          *)

InitDuringLoad ==
    /\ memos = <<OldMemo>>
    /\ currentMemoId = 0
    /\ folders = InitialFolders
    /\ user = [isLoggedIn |-> TRUE, mode |-> "general"]
    /\ googleDriveLoaded = FALSE
    /\ preservedAttributes = NoAttributes
    /\ isLoading = TRUE
    /\ hasLoaded = FALSE
    /\ token = "valid"
    /\ drive = OldDrive
    /\ tasks = <<>>
    /\ loads = <<LoadTask(FALSE)>>
    /\ dialog = DialogClosed
    /\ clock = 1
    /\ idCounter = 0
    /\ last = [op |-> "init"]

SpecDuringLoad ==
    InitDuringLoad /\ [][\/ HandleCreateNewMemo(Undefined)
                         \/ \E i \in 1..MaxMemos : \E content \in Contents :
                                HandleUpdateContent(i, content)
                         \/ \E i \in 1..MaxMemos : HandleDelete(i)
                         \/ \E i \in 1..MaxTasks : SaveResolve(i)
                         \/ \E i \in 1..MaxTasks : SaveLookup(i)
                         \/ \E i \in 1..MaxTasks : SaveWrite(i)
                         \/ \E i \in 1..MaxTasks : DeleteLookup(i)
                         \/ \E i \in 1..MaxTasks : DeleteWrite(i)
                         \/ \E i \in 1..MaxLoads : LoadComplete(i)
                         \/ \E i \in 1..MaxLoads : LoadFails(i)]_vars

-----------------------------------------------------------------------------
(* The sessions with every remote call of a load returning or failing in    *)
(* the end: a load that is in flight ends.                                  *)

LoadEnds == \E i \in 1..MaxLoads : LoadComplete(i) \/ LoadFails(i)

SpecLatch == InitSync /\ [][NextSession]_vars /\ WF_vars(LoadEnds)

-----------------------------------------------------------------------------
(* Deletes and the bulk loads of later sessions: a signed-in user whose     *)
(* memos are loaded and saved on the drive deletes, signs out and in, and   *)
(* the memos are loaded again; a remote call of a push can fail.            *)

InitComeBack ==
    /\ memos = GroupOf("general", 2)
    /\ currentMemoId = 0
    /\ folders = InitialFolders
    /\ user = [isLoggedIn |-> TRUE, mode |-> "general"]
    /\ googleDriveLoaded = TRUE
    /\ preservedAttributes = NoAttributes
    /\ isLoading = FALSE
    /\ hasLoaded = TRUE
    /\ token = "valid"
    /\ drive = [files |-> [k \in 1..Len(memos) |->
                              [fid |-> k, name |-> MemoFileName(memos[k]),
                               mimeType |-> JsonMime, parent |-> RootId,
                               content |-> JsonStringify(memos[k])]],
                nextId |-> Len(memos) + 1]
    /\ tasks = <<>>
    /\ loads = <<>>
    /\ dialog = DialogClosed
    /\ clock = 1
    /\ idCounter = 2
    /\ last = [op |-> "init"]

SpecComeBack ==
    InitComeBack /\ [][\/ \E i \in 1..MaxMemos : HandleDelete(i)
                       \/ \E i \in 1..MaxTasks : SaveResolve(i)
                       \/ \E i \in 1..MaxTasks : SaveLookup(i)
                       \/ \E i \in 1..MaxTasks : SaveWrite(i)
                       \/ \E i \in 1..MaxTasks : DeleteLookup(i)
                       \/ \E i \in 1..MaxTasks : DeleteWrite(i)
                       \/ \E i \in 1..MaxTasks : PushFails(i)
                       \/ SignOut
                       \/ Session
                       \/ Load]_vars

-----------------------------------------------------------------------------
(* The titles of a general user's memos: the creates, and the editor's      *)
(* save of the current memo, which takes the title of the form; the pushes  *)
(* all fail.                                                                *)

SpecRename ==
    InitTitle /\ [][\/ HandleCreateNewMemo(Undefined)
                    \/ \E options \in EditorOptions(user.mode) : HandleSaveNew("text", options)
                    \/ \E form \in EditorOptions(user.mode) : HandleSaveExisting("text", form)
                    \/ \E i \in 1..MaxMemos : HandleNewVersion(i)
                    \/ \E i \in 1..MaxMemos : HandleDuplicate(i)
                    \/ \E i \in 1..MaxMemos : HandleDelete(i)
                    \/ \E id \in 0..MaxMemos : SetCurrentMemoId(id)
                    \/ \E i \in 1..MaxTasks : PushFails(i)]_vars

-----------------------------------------------------------------------------
(* The properties. *)

\* The versions of the memos of a sequence
Versions(ms) == {ms[k].version : k \in 1..Len(ms)}

\* The memo with the id in a collection that holds it
MemoOf(ms, id) == ms[FindIndexById(ms, id)]

\* C1: in every state the store's operations reach, the versions of the memos
\* of each identity group (the memos of one mode with one base identifier) are
\* exactly 1..K, K the size of the group: no gap and no duplicate.
VersionRun ==
    \A i \in 1..Len(memos) :
        LET group == getRelatedMemos(memos[i], memos)
        IN /\ Versions(group) = 1..Len(group)
           /\ \A a, b \in 1..Len(group) : group[a].version = group[b].version => a = b

\* C2: the blobs a bulk load reads, by their index in the listing of the
\* drive: a memo blob (named *.json, not the reserved name) in the root folder
\* or in a folder of the root folder, that parses and embeds an id.
EligibleBlobs(d) ==
    {k \in 1..Len(d.files) :
        /\ d.files[k].mimeType # FolderMime
        /\ EndsWith(d.files[k].name, JsonExt)
        /\ d.files[k].name # UserConfigName
        /\ d.files[k].content.ok
        /\ "id" \in DOMAIN d.files[k].content.value
        /\ \/ d.files[k].parent = RootId
           \/ \E j \in 1..Len(d.files) :
                /\ d.files[j].mimeType = FolderMime
                /\ d.files[j].parent = RootId
                /\ d.files[j].fid = d.files[k].parent}

\* The place of a blob's folder in the enumeration: the root folder first,
\* then the folders in the order the root folder lists them.
FolderRank(d, k) ==
    IF d.files[k].parent = RootId THEN 0
    ELSE CHOOSE j \in 1..Len(d.files) : d.files[j].fid = d.files[k].parent

EnumeratedBefore(d, j, k) ==
    \/ FolderRank(d, j) < FolderRank(d, k)
    \/ FolderRank(d, j) = FolderRank(d, k) /\ j < k

\* C2: a bulk load that completes returns no two memos with one id; it returns
\* a memo for each id an eligible blob embeds, and that memo is the content of
\* the first eligible blob with the id in the enumeration order (the root
\* folder's blobs before the subfolders', the listing order within a folder).
FirstBlobWins ==
    last.op = "loadComplete" =>
        LET loaded == last.loaded
            eligible == EligibleBlobs(drive)
        IN /\ \A a, b \in 1..Len(loaded) : loaded[a].id = loaded[b].id => a = b
           /\ {loaded[a].id : a \in 1..Len(loaded)}
                = {drive.files[k].content.value.id : k \in eligible}
           /\ \A a \in 1..Len(loaded) :
                \E k \in eligible :
                    /\ loaded[a] = drive.files[k].content.value
                    /\ \A j \in eligible :
                        drive.files[j].content.value.id = loaded[a].id
                            => j = k \/ EnumeratedBefore(drive, k, j)

\* C2's case: the load completed on a drive where a subfolder's blob comes
\* earlier in the listing than a root blob with the same id and another
\* content, and the root blob's memo is the one returned.
FirstBlobWinsWitness ==
    /\ last.op = "loadComplete"
    /\ \E j, k \in EligibleBlobs(drive) :
        /\ j < k
        /\ drive.files[j].parent # RootId
        /\ drive.files[k].parent = RootId
        /\ drive.files[j].content.value.id = drive.files[k].content.value.id
        /\ drive.files[j].content.value # drive.files[k].content.value
        /\ \E a \in 1..Len(last.loaded) : last.loaded[a] = drive.files[k].content.value

\* C3: a bulk-load request made while a load is in flight changes nothing of
\* the sync state: isLoading stays set, hasLoaded and the store's
\* googleDriveLoaded stay as they were, no load is added, the drive is not
\* touched and no memo comes in.
DuplicateLoadIsNoOp ==
    (last.op = "duplicateLoadRequest" /\ last.wasLoading) =>
        /\ isLoading
        /\ hasLoaded = last.wasLoaded
        /\ googleDriveLoaded = last.storeLoaded
        /\ loads = last.loads
        /\ drive = last.drive
        /\ memos = last.pre

\* The fields of a memo but its timestamps; an absent folderId is undefined.
Timeless(m) ==
    [k \in (DOMAIN m \cup {"folderId"}) \ {"createdAt", "modifiedAt", "viewedAt"} |->
        IF k \in DOMAIN m THEN m[k] ELSE Undefined]

\* The memo is in the collection as it was created: nothing has updated,
\* renumbered or deleted it since.
AsCreated(memo) ==
    \E i \in 1..Len(memos) : memos[i].id = memo.id /\ Timeless(memos[i]) = Timeless(memo)

\* C4: when the save of a memo the store has created (and not touched since)
\* completes, a bulk load of the drive returns exactly one memo with its id,
\* equal to the created memo in every field but the timestamps.
RoundTrip ==
    (last.op = "saveDone" /\ last.origin = "add" /\ AsCreated(last.memo)) =>
        LET HasId(m) == m.id = last.memo.id
            back == SelectSeq(LoadedMemos(drive), HasId)
        IN /\ Len(back) = 1
           /\ Timeless(back[1]) = Timeless(last.memo)

\* The constraints of a mode on the fields of a memo: a grade of GRADES, a
\* year of YEARS, a subject and a student that are not blank.
FieldsValid(m) ==
    CASE m.mode = "general" -> "title" \in DOMAIN m
      [] m.mode = "student" ->
            /\ IsGrade(<<GetTok(m, "grade")>>)
            /\ NotBlank(GetStr(m, "subject"))
            /\ GetStr(m, "internalTitle")
                = <<m.grade>> \o <<"-">> \o m.subject \o <<"-">> \o NumStr(m.version)
      [] m.mode = "teacher" ->
            /\ IsYear(GetNum(m, "year"))
            /\ IsGrade(<<GetTok(m, "grade")>>)
            /\ NotBlank(GetStr(m, "subject"))
            /\ NotBlank(GetStr(m, "student"))
            /\ GetStr(m, "internalTitle")
                = NumStr(m.year) \o <<"-">> \o <<m.grade>> \o <<"-">> \o m.subject
                    \o <<"-">> \o m.student \o <<"-">> \o NumStr(m.version)
      [] OTHER -> FALSE

\* C5: after the dialog's conversion (the automatic one or the confirmed one)
\* every memo has the target mode with fields that satisfy it, or no memo has
\* changed at all.
ConversionAllOrNothing ==
    last.op \in {"modeChange", "modeConfirm"} =>
        \/ \A i \in 1..Len(memos) : memos[i].mode = last.toMode /\ FieldsValid(memos[i])
        \/ memos = last.pre

\* The names a memo of a mode carries for its fields and a version: for a
\* general memo the title `base` or `base-N`, for the other modes the
\* internal and the display title the name functions give.
NamesDerived(m, base, version) ==
    CASE m.mode = "general" ->
            m.title = IF version = 1 THEN base ELSE base \o <<"-">> \o NumStr(version)
      [] m.mode = "student" ->
            /\ GetStr(m, "internalTitle")
                = createInternalTitle("student",
                      [grade |-> m.grade, subject |-> m.subject, version |-> version])
            /\ GetStr(m, "displayTitle")
                = createDisplayTitle("student", [subject |-> m.subject, version |-> version])
      [] m.mode = "teacher" ->
            /\ GetStr(m, "internalTitle")
                = createInternalTitle("teacher",
                      [year |-> m.year, grade |-> m.grade, subject |-> m.subject,
                       student |-> m.student, version |-> version])
            /\ GetStr(m, "displayTitle")
                = createDisplayTitle("teacher", [student |-> m.student, version |-> version])
      [] OTHER -> FALSE

\* The members of the deleted memo's group that stay, as they were before
RemainingOfGroup ==
    LET Stays(m) == m.id # last.id
    IN SelectSeq(getRelatedMemos(last.source, last.pre), Stays)

\* C6: when a memo of a group with the versions 1..K is deleted, the members
\* that stay carry the versions 1..K-1, in the order of their old versions
\* and at their old places in the collection, and each member whose version
\* changed has the names (the title, for a general memo) of its new version.
DeleteRenumbers ==
    (/\ last.op = "delete"
     /\ Versions(getRelatedMemos(last.source, last.pre))
            = 1..Len(getRelatedMemos(last.source, last.pre))) =>
        LET rest == RemainingOfGroup
            Now(k) == MemoOf(memos, rest[k].id)
            InRest(m) == \E k \in 1..Len(rest) : rest[k].id = m.id
            kept == SelectSeq(memos, InRest)
        IN /\ \A k \in 1..Len(rest) : rest[k].id \in Ids(memos)
           /\ {Now(k).version : k \in 1..Len(rest)} = 1..Len(rest)
           /\ \A a, b \in 1..Len(rest) :
                rest[a].version < rest[b].version => Now(a).version < Now(b).version
           /\ [k \in 1..Len(kept) |-> kept[k].id] = [k \in 1..Len(rest) |-> rest[k].id]
           /\ \A k \in 1..Len(rest) :
                Now(k).version # rest[k].version
                    => NamesDerived(Now(k), getMemoBaseIdentifier(rest[k]), Now(k).version)

\* C6's case: the memo with version 2 of a group with the versions 1, 2, 3 has
\* been deleted and the memo that had version 3 has version 2.
DeleteRenumbersWitness ==
    /\ last.op = "delete"
    /\ last.source.version = 2
    /\ Versions(getRelatedMemos(last.source, last.pre)) = {1, 2, 3}
    /\ Len(getRelatedMemos(last.source, last.pre)) = 3
    /\ \E k \in 1..Len(RemainingOfGroup) :
        /\ RemainingOfGroup[k].version = 3
        /\ MemoOf(memos, RemainingOfGroup[k].id).version = 2

\* C7: getNextAvailableVersion gives the smallest positive integer that is
\* not the version of a memo of the target's group: it is at least 1, no
\* member has it, and every smaller positive integer is some member's version.
NextVersionIsSmallestMissing ==
    last.op = "nextVersion" =>
        LET used == Versions(getRelatedMemos(last.target, memos))
        IN /\ last.result >= 1
           /\ last.result \notin used
           /\ \A v \in 1..(last.result - 1) : v \in used

\* C7's case: the versions 1, 2 and 4 are used and the result is 3.
NextVersionWitness ==
    /\ last.op = "nextVersion"
    /\ Versions(getRelatedMemos(last.target, memos)) = {1, 2, 4}
    /\ last.result = 3

\* C8: the memo handleNewVersion adds to the collection has an id no memo
\* had, the version getNextAvailableVersion gives for the source, the
\* source's content, the names of that version, and is of the source's group.
NewVersionJoinsGroup ==
    last.op = "newVersion" =>
        /\ last.id \notin Ids(last.pre)
        /\ last.id \in Ids(memos)
        /\ LET made == MemoOf(memos, last.id)
           IN /\ made.version = getNextAvailableVersion(last.source, last.pre)
              /\ made.content = last.source.content
              /\ NamesDerived(made, getMemoBaseIdentifier(last.source), made.version)
              /\ IsRelated(made, last.source)

\* The titles of a memo; a title it does not have is undefined
Names(m) ==
    [title |-> GetStr(m, "title"), internalTitle |-> GetStr(m, "internalTitle"),
     displayTitle |-> GetStr(m, "displayTitle")]

\* C9: an update of a memo's content alone changes no title, internal title
\* or display title, of that memo or of another; and the names of a memo
\* that were those of its fields and version before are so afterwards.
ContentUpdateKeepsNames ==
    last.op = "updateContent" =>
        /\ Len(memos) = Len(last.pre)
        /\ \A i \in 1..Len(memos) :
            /\ memos[i].id = last.pre[i].id
            /\ Names(memos[i]) = Names(last.pre[i])
            /\ (memos[i].mode # "general"
                    /\ NamesDerived(last.pre[i], <<>>, last.pre[i].version))
                => NamesDerived(memos[i], <<>>, memos[i].version)

\* C9's case: the content of a memo with derived names has been changed,
\* beside another memo.
ContentUpdateWitness ==
    /\ last.op = "updateContent"
    /\ Len(memos) >= 2
    /\ \E i \in 1..Len(memos) :
        /\ memos[i].id = last.id
        /\ memos[i].content # last.pre[i].content
        /\ memos[i].mode = "student"
        /\ NamesDerived(memos[i], <<>>, memos[i].version)

\* The steps of the pushes and of the credential
RemoteOps == {"saveStep", "saveDone", "deleteStep", "deleteDone", "pushFailed", "tokenExpires"}

\* C10: the memo is in the collection as soon as a creating handler returns,
\* whether or not a save could start, and no step of a push (a failure among
\* them) changes the collection.
CreateIsLocalFirst ==
    [][/\ last'.op \in {"create", "newVersion", "duplicate"} =>
            /\ last'.id \in Ids(memos')
            /\ Len(memos') = Len(memos) + 1
       /\ last'.op \in RemoteOps => memos' = memos]_vars

\* C10's case: a signed-in user whose credential had expired created a memo,
\* the save was rejected, and the memo is in the collection.
CreateIsLocalFirstWitness ==
    /\ last.op = "create"
    /\ user.isLoggedIn
    /\ token = "none"
    /\ tasks = <<>>
    /\ last.id \in Ids(memos)

\* C11: a delete is settled locally.  Once deleteMemo has returned, the memo
\* is not in the local collection, and it stays out of it while the remote
\* delete is pending, when the remote delete was never started (nobody signed
\* in), when it fails and when it ends.
LocalDeleteIsAuthoritative ==
    /\ last.op = "delete" => last.id \notin Ids(memos)
    /\ \A i \in 1..Len(tasks) :
            tasks[i].kind = "delete" => tasks[i].memo.id \notin Ids(memos)
    /\ last.op = "deleteDone" => last.memo.id \notin Ids(memos)
    /\ last.op = "pushFailed" /\ last.origin = "delete" => last.memo.id \notin Ids(memos)

\* A remote delete has failed while other memos remain, and the memo is gone.
LocalDeleteWitness ==
    /\ last.op = "pushFailed" /\ last.origin = "delete"
    /\ memos # <<>>
    /\ last.memo.id \notin Ids(memos)

\* C12: the sync state changes only from not-started to loading by a load
\* request, from loading to loaded by a load that ends well, to not-started
\* by a sign-out, and from loading to not-started by a load that fails; a
\* duplicate request leaves it as it is.
SyncStateTransitions ==
    [][\/ SyncState' = SyncState
       \/ SyncState = "not-started" /\ SyncState' = "loading" /\ last'.op = "loadRequest"
       \/ SyncState = "loading" /\ SyncState' = "loaded" /\ last'.op = "loadComplete"
       \/ SyncState' = "not-started" /\ last'.op = "signOut"
       \/ SyncState = "loading" /\ SyncState' = "not-started" /\ last'.op = "loadFailed"]_vars

\* C13: when a load of the running session fails, the call has brought
\* nothing into the collection, the sync state is not loaded, and the header
\* asks again: the user is signed in, the store is not marked loaded and the
\* guards of loadMemos let the next call through.
RetryAfterHardFailure ==
    last.op = "loadFailed" /\ ~last.stale =>
        /\ memos = last.pre
        /\ SyncState # "loaded"
        /\ user.isLoggedIn /\ ~googleDriveLoaded /\ ~isLoading /\ ~hasLoaded

LateCompletionsDiscarded ==
    [][last'.op \in {"loadComplete", "loadFailed"} /\ last'.stale =>
            memos' = memos /\ SyncState' = SyncState]_vars

\* C16: at most one enumeration of the drive is in progress.
AtMostOneLoad == Len(loads) <= 1

\* The blobs of a drive that embed the id
BlobsOf(d, id) ==
    {k \in 1..Len(d.files) : Parses(d.files[k]) /\ EmbeddedId(d.files[k]) = id}

\* The blob lies in the folder saveMemo chooses for the memo: the subfolder
\* named after the memo's folder, or the root folder.
InTargetFolder(d, f, memo) ==
    LET folder == FolderOfMemo(memo, folders)
    IN IF folder = <<>> THEN f.parent = RootId
       ELSE \E j \in 1..Len(d.files) :
                /\ d.files[j].mimeType = FolderMime /\ d.files[j].parent = RootId
                /\ d.files[j].name = folder[1].name
                /\ f.parent = d.files[j].fid

\* C17, for the move of a general memo to another folder, made when no push
\* was in flight: when the save of the moved memo has ended and no push is
\* left, exactly one blob embeds the memo's id; it has the memo's name and
\* content and lies in the memo's target folder.
MoveLeavesOneBlob ==
    last.op = "saveDone" /\ last.origin = "move" /\ tasks = <<>> =>
        \E k \in 1..Len(drive.files) :
            /\ BlobsOf(drive, last.memo.id) = {k}
            /\ drive.files[k].name = MemoFileName(last.memo)
            /\ drive.files[k].content = JsonStringify(last.memo)
            /\ InTargetFolder(drive, drive.files[k], last.memo)

\* The tasks of a kind, as the set of their positions
TasksOfKind(kind) == {i \in 1..Len(tasks) : tasks[i].kind = kind}

\* C18: one delete in a group whose memos are all saved.  When deleteMemo
\* returns, one remote delete is under way, for the removed memo, and one
\* save for each sibling whose version changed and for no other memo, with
\* the sibling as it now is.  When these have ended, no blob embeds the
\* removed id, and each memo has one blob, with the name and the embedded
\* version of the memo's local version.
DeleteKeepsRemoteNames ==
    /\ last.op = "delete" /\ Len(last.pre) = MaxMemos =>
            /\ \E i \in 1..Len(tasks) :
                    TasksOfKind("delete") = {i} /\ tasks[i].memo.id = last.id
            /\ \A k \in 1..Len(memos) :
                    LET changed == MemoOf(last.pre, memos[k].id).version # memos[k].version
                        saves == {i \in TasksOfKind("save") : tasks[i].memo.id = memos[k].id}
                    IN /\ Cardinality(saves) = IF changed THEN 1 ELSE 0
                       /\ \A i \in saves : tasks[i].memo = memos[k]
            /\ \A i \in TasksOfKind("save") : tasks[i].memo.id \in Ids(memos)
    /\ Len(memos) = MaxMemos - 1 /\ tasks = <<>> =>
            /\ \A id \in (1..MaxMemos) \ Ids(memos) : BlobsOf(drive, id) = {}
            /\ \A k \in 1..Len(memos) : \E f \in 1..Len(drive.files) :
                    /\ BlobsOf(drive, memos[k].id) = {f}
                    /\ drive.files[f].name = MemoFileName(memos[k])
                    /\ drive.files[f].content.value.version = memos[k].version

\* The first version of the group was deleted, both siblings have a new
\* version, and the last of the pushes, a save, has ended.
DeleteKeepsRemoteNamesWitness ==
    /\ Len(memos) = MaxMemos - 1 /\ tasks = <<>>
    /\ last.op = "saveDone" /\ last.origin = "reorder"
    /\ 1 \notin Ids(memos)
    /\ \A k \in 1..Len(memos) : memos[k].version = memos[k].id - 1

\* C19: two deletes in one group, the second made while pushes of the first
\* may still be under way.  When all the pushes have ended, each memo that is
\* left has one blob, with the name and the embedded version of the memo's
\* local version.
CascadesDoNotRace ==
    Len(memos) = MaxMemos - 2 /\ tasks = <<>> =>
        \A k \in 1..Len(memos) : \E f \in 1..Len(drive.files) :
            /\ BlobsOf(drive, memos[k].id) = {f}
            /\ drive.files[f].name = MemoFileName(memos[k])
            /\ drive.files[f].content.value.version = memos[k].version

\* C20: a push that ends at its createFile, updateFile or deleteFile call
\* has sent that call only with a token that had not expired.  (The calls
\* that succeed are sent with a valid token: the drive accepts no other.)
CredentialGate ==
    [][\A i \in 1..Len(tasks) :
            (/\ last'.op = "pushFailed"
             /\ tasks' = RemoveAt(tasks, i)
             /\ tasks[i].pc \in {"write", "delete"}
             /\ BlobCallSent(token))
                => token = "valid"]_vars

\* C21: after a refresh of the access token that failed, no access token is
\* cached.
FailedRefreshClears == last.op = "refreshFailed" => token = "none"

\* C22: the state a delete leaves has the memo removed and the whole of its
\* group renumbered: the members that stay, in the order of their old
\* versions, carry the versions 1, 2, 3, ...; no state has the memo removed
\* and only a part of its group renumbered.
DeleteIsAtomic ==
    last.op = "delete" =>
        LET sorted == SortByVersion(RemainingOfGroup)
        IN /\ last.id \notin Ids(memos)
           /\ Len(memos) = Len(last.pre) - 1
           /\ \A k \in 1..Len(sorted) : MemoOf(memos, sorted[k].id).version = k

\* C22's case: the memo with version 1 of a group of three has been deleted
\* and both members that stay have a new version.
DeleteIsAtomicWitness ==
    /\ last.op = "delete"
    /\ last.source.version = 1
    /\ Len(RemainingOfGroup) = 2
    /\ \A k \in 1..2 :
        MemoOf(memos, RemainingOfGroup[k].id).version # RemainingOfGroup[k].version

\* The title `title (n)`
Suffixed(title, n) == title \o <<" ", "(">> \o NumStr(n) \o <<")">>

\* A general memo of the collection the add found carries the title
TitleTaken(title) ==
    \E i \in 1..Len(last.pre) : last.pre[i].mode = "general" /\ last.pre[i].title = title

\* C23: when addMemo has added a general memo, no other general memo has its
\* title; the title is the one asked for when no general memo had it, and
\* else the one asked for followed by " (n)" for the smallest n >= 2 for
\* which no general memo had that title.
CreatedTitleIsUnique ==
    (/\ last.op \in {"create", "newVersion", "duplicate"}
     /\ last.made.mode = "general") =>
        LET added == MemoOf(memos, last.id)
            asked == last.made.title
        IN /\ \A i \in 1..Len(memos) :
                (memos[i].mode = "general" /\ memos[i].id # last.id)
                    => memos[i].title # added.title
           /\ IF TitleTaken(asked)
              THEN \E n \in 2..(Len(last.pre) + 2) :
                    /\ added.title = Suffixed(asked, n)
                    /\ ~TitleTaken(Suffixed(asked, n))
                    /\ \A k \in 2..(n - 1) : TitleTaken(Suffixed(asked, k))
              ELSE added.title = asked

\* C23's case: a general memo was added whose title and whose title with
\* " (2)" were taken, and it has the title with " (3)".
CreatedTitleIsUniqueWitness ==
    /\ last.op \in {"create", "newVersion", "duplicate"}
    /\ last.made.mode = "general"
    /\ TitleTaken(last.made.title)
    /\ TitleTaken(Suffixed(last.made.title, 2))
    /\ MemoOf(memos, last.id).title = Suffixed(last.made.title, 3)

\* The remote store without its blobs named user-config.json
WithoutConfig(d) ==
    LET NotConfig(f) == f.name # UserConfigName
    IN [d EXCEPT !.files = SelectSeq(@, NotConfig)]

\* The name of the blob with the remote id fid
NameOf(d, fid) == d.files[FileIndex(d, fid)].name

\* C24: a blob named user-config.json is never read as a memo: a bulk load
\* returns what it would return from the store without these blobs, the
\* lookup of a save or of a delete never finds one of them, and no step of a
\* save or of a delete changes or removes one.
ConfigBlobIsNoMemo ==
    [][/\ last'.op = "loadComplete" => last'.loaded = LoadedMemos(WithoutConfig(drive))
       /\ \A i \in 1..Len(tasks') :
            (/\ i <= Len(tasks)
             /\ Len(tasks') = Len(tasks)
             /\ tasks'[i].existing # tasks[i].existing)
                => NameOf(drive, tasks'[i].existing) # UserConfigName
       /\ \A k \in 1..Len(drive.files) :
            drive.files[k].name = UserConfigName
                => \E j \in 1..Len(drive'.files) : drive'.files[j] = drive.files[k]]_vars

\* C24's case: the memo was saved while a blob named user-config.json with
\* the memo's id lay in the root folder.
ConfigBlobIsNoMemoWitness ==
    /\ last.op = "saveDone"
    /\ \E k \in 1..Len(drive.files) :
        /\ drive.files[k].name = UserConfigName
        /\ drive.files[k].parent = RootId
        /\ Parses(drive.files[k])
        /\ EmbeddedId(drive.files[k]) = last.memo.id

\* The remote store without the blobs whose content does not parse
WithoutUnparseable(d) ==
    LET Reads(f) == f.mimeType = FolderMime \/ f.content.ok
    IN [d EXCEPT !.files = SelectSeq(@, Reads)]

\* What the lookup of a save finds in the store d
SaveFinds(d, t) ==
    LET IsMemoFile(f) == IsMemoFileName(f.name)
    IN FindById(SelectSeq(listFiles(d, t.target), IsMemoFile), t.memo.id)

\* C25: blobs that do not parse change nothing but their own absence.  A bulk
\* load that completes sets hasLoaded, clears isLoading and returns what it
\* would return from the store without these blobs; the lookup of a save and
\* the lookup of a delete find the blob they would find without them.
ParseFailuresAreSkipped ==
    [][/\ last'.op = "loadComplete" =>
            /\ hasLoaded' /\ ~isLoading'
            /\ last'.loaded = LoadedMemos(WithoutUnparseable(drive))
       /\ \A i \in 1..Len(tasks) :
            (/\ Len(tasks') = Len(tasks)
             /\ tasks[i].kind = "save" /\ tasks[i].pc = "lookup"
             /\ tasks'[i].pc = "write") =>
                LET found == SaveFinds(WithoutUnparseable(drive), tasks[i])
                IN tasks'[i].existing = IF found = <<>> THEN 0 ELSE found[1].fid
       /\ last'.op = "deleteStep" =>
            \E i \in 1..Len(tasks) :
                LET found == SearchInFolders(WithoutUnparseable(drive), <<RootId>>,
                                             tasks[i].memo.id)
                IN /\ tasks[i].kind = "delete" /\ tasks[i].pc = "lookup"
                   /\ tasks' = IF found = <<>> THEN RemoveAt(tasks, i)
                               ELSE [tasks EXCEPT ![i] =
                                        [@ EXCEPT !.pc = "delete",
                                                  !.existing = found[1].fid]]]_vars

\* C25's case: the lookup of a save has found the memo's blob behind a blob
\* of the same folder that does not parse.
ParseFailuresAreSkippedWitness ==
    \E i \in 1..Len(tasks) :
        /\ tasks[i].kind = "save" /\ tasks[i].pc = "write"
        /\ tasks[i].existing # 0
        /\ \E j, k \in 1..Len(drive.files) :
            /\ j < k
            /\ drive.files[k].fid = tasks[i].existing
            /\ drive.files[j].parent = drive.files[k].parent
            /\ IsMemoFileName(drive.files[j].name)
            /\ ~Parses(drive.files[j])

\* The ids of a collection, in its order
IdsOf(ms) == [i \in 1..Len(ms) |-> ms[i].id]

\* C26: no two memos of the collection have one id, and no step changes the
\* id of a memo: a step leaves the ids as they are, memo by memo, or appends
\* the id of a memo it made, which no memo had, or takes out the id of the
\* memo it deleted, or puts the memos of a bulk load in the collection.
IdsUniqueAndFixed ==
    [][/\ \A a, b \in 1..Len(memos') : memos'[a].id = memos'[b].id => a = b
       /\ \/ IdsOf(memos') = IdsOf(memos)
          \/ /\ last'.op \in {"create", "newVersion", "duplicate"}
             /\ last'.id \notin Ids(memos)
             /\ IdsOf(memos') = Append(IdsOf(memos), last'.id)
          \/ /\ last'.op = "delete"
             /\ LET Stays(m) == m.id # last'.id
                IN IdsOf(memos') = IdsOf(SelectSeq(memos, Stays))
          \/ /\ last'.op = "loadComplete"
             /\ IdsOf(memos') = IdsOf(last'.loaded)]_vars

\* C26's case: a mode change has converted a collection of two memos or
\* more, and each memo has the id it had.
IdsUniqueAndFixedWitness ==
    /\ last.op \in {"modeChangeDirect", "modeChange", "modeConfirm"}
    /\ Len(memos) >= 2
    /\ \E i \in 1..Len(memos) : memos[i].mode # last.pre[i].mode
    /\ IdsOf(memos) = IdsOf(last.pre)

\* The folder n steps up the parentId links from the folder id (Undefined
\* above the top and above a parent that is gone)
RECURSIVE Ascend(_, _, _)
Ascend(fs, id, n) ==
    IF n = 0 \/ id = Undefined THEN id
    ELSE LET Match(f) == f.id = id
             found == SelectSeq(fs, Match)
         IN Ascend(fs, IF found = <<>> THEN Undefined ELSE found[1].parentId, n - 1)

CachedNamesMatch ==
    \A i \in 1..Len(memos) :
        memos[i].mode \in {"student", "teacher"}
            => NamesDerived(memos[i], <<>>, memos[i].version)

\* The fields a renumbering may change
RenumberedFields == {"version", "internalTitle", "displayTitle", "title"}

\* C29: a delete leaves each memo outside the deleted memo's group as it
\* was, and changes of a member of the group nothing but the version, the
\* internal and the display title and, of a general memo, the title: the
\* id, the content, the three times and every other field stay.
DeleteFrame ==
    last.op = "delete" =>
        \A i \in 1..Len(last.pre) :
            LET was == last.pre[i]
                now == MemoOf(memos, was.id)
                member == \E k \in 1..Len(RemainingOfGroup) : RemainingOfGroup[k].id = was.id
            IN was.id # last.id =>
                /\ was.id \in Ids(memos)
                /\ DOMAIN now = DOMAIN was
                /\ \A f \in DOMAIN was \ RenumberedFields : now[f] = was[f]
                /\ ~member => now = was

\* C29's case: a delete has renumbered a member of the group, and a memo
\* outside the group is in the collection.
DeleteFrameWitness ==
    /\ last.op = "delete"
    /\ \E k \in 1..Len(RemainingOfGroup) :
        MemoOf(memos, RemainingOfGroup[k].id).version # RemainingOfGroup[k].version
    /\ \E i \in 1..Len(last.pre) :
        /\ last.pre[i].id # last.id
        /\ \A k \in 1..Len(RemainingOfGroup) : RemainingOfGroup[k].id # last.pre[i].id

\* The three times of a memo
TimesOf(m) == <<m.createdAt, m.modifiedAt, m.viewedAt>>

\* C30: a selection changes nothing but the viewedAt of the memo selected,
\* which becomes the time of the selection, and starts no push; an update of
\* a memo's content sets its modifiedAt to the time of the update, keeps its
\* createdAt and its viewedAt and leaves every other memo as it was; a delete
\* changes none of the three times of a memo that stays.
TimestampsHaveOwners ==
    [][/\ last'.op = "select" =>
            /\ tasks' = tasks /\ drive' = drive
            /\ Len(memos') = Len(memos)
            /\ \A i \in 1..Len(memos) :
                memos'[i] = IF memos[i].id = last'.id
                            THEN [memos[i] EXCEPT !.viewedAt = clock]
                            ELSE memos[i]
       /\ last'.op = "updateContent" =>
            /\ Len(memos') = Len(memos)
            /\ \A i \in 1..Len(memos) :
                IF memos[i].id = last'.id
                THEN /\ memos'[i].modifiedAt = clock
                     /\ memos'[i].createdAt = memos[i].createdAt
                     /\ memos'[i].viewedAt = memos[i].viewedAt
                ELSE memos'[i] = memos[i]
       /\ last'.op = "delete" =>
            \A i \in 1..Len(memos') :
                TimesOf(memos'[i]) = TimesOf(MemoOf(memos, memos'[i].id))]_vars

\* C30's case: a memo of a collection of two or more was selected at a
\* later time than it was last viewed.
TimestampsHaveOwnersWitness ==
    /\ last.op = "select"
    /\ last.id # 0
    /\ Len(memos) >= 2
    /\ MemoOf(memos, last.id).viewedAt # MemoOf(last.pre, last.id).viewedAt

\* What the drive holds besides the entry with remote id fid
WithoutFile(d, fid) ==
    LET Other(f) == f.fid # fid IN SelectSeq(d.files, Other)

\* C31: a call of ensureNeisMateFolder or ensureSubFolder returns the id of
\* the first folder its search finds and creates nothing when the search
\* finds one; it creates one folder with the name (below the parent) and
\* returns its id when the search finds none; the same call made next
\* returns the same id and creates nothing.
EnsureIsIdempotent ==
    /\ last.op = "ensureNeisMateFolder" =>
            LET before == NeisMateFolders(last.pre)
                after == NeisMateFolders(drive)
            IN /\ before # <<>> => drive = last.pre /\ last.id = before[1].fid
               /\ before = <<>> =>
                    /\ Len(after) = 1 /\ after[1].fid = last.id
                    /\ WithoutFile(drive, last.id) = last.pre.files
               /\ ensureNeisMateFolder(drive) = [drive |-> drive, id |-> last.id]
    /\ last.op = "ensureSubFolder" =>
            LET before == SubFoldersNamed(last.pre, last.parent, last.name)
                after == SubFoldersNamed(drive, last.parent, last.name)
            IN /\ before # <<>> => drive = last.pre /\ last.id = before[1].fid
               /\ before = <<>> =>
                    /\ Len(after) = 1 /\ after[1].fid = last.id
                    /\ WithoutFile(drive, last.id) = last.pre.files
               /\ ensureSubFolder(drive, last.parent, last.name)
                        = [drive |-> drive, id |-> last.id]

\* C31's case: ensureSubFolder was called where two folders with the name
\* were below the parent, a folder with the application's name.
EnsureIsIdempotentWitness ==
    /\ last.op = "ensureSubFolder"
    /\ Len(SubFoldersNamed(last.pre, last.parent, last.name)) >= 2
    /\ \E k \in 1..Len(drive.files) :
            drive.files[k].fid = last.parent /\ drive.files[k].name = NeisMateName

\* C32: a call of loadMemosFromDrive made while the sync state is loaded
\* starts no enumeration and no remote call, gets no memos, and leaves the
\* collection and the sync state as they are.
LoadAfterLoadedIsNoOp ==
    [][last'.op = "loadMemosFromDrive" /\ SyncState = "loaded" =>
            /\ ~last'.started /\ last'.returned = <<>>
            /\ loads' = loads /\ drive' = drive /\ tasks' = tasks
            /\ memos' = memos
            /\ SyncState' = SyncState]_vars

\* C32's case: the call was made after a load had brought memos in.
LoadAfterLoadedIsNoOpWitness ==
    /\ last.op = "loadMemosFromDrive"
    /\ last.state = "loaded"
    /\ memos # <<>>
    /\ LoadedMemos(drive) # <<>>

\* C33: the remote store never holds two memo blobs that embed the same id.
OneBlobPerItem ==
    \A j \in 1..Len(drive.files) : \A k \in 1..Len(drive.files) :
        /\ j # k
        /\ IsMemoFileName(drive.files[j].name) /\ Parses(drive.files[j])
        /\ IsMemoFileName(drive.files[k].name) /\ Parses(drive.files[k])
        => EmbeddedId(drive.files[j]) # EmbeddedId(drive.files[k])

\* C34: when the load that was in flight ends well and the store takes its
\* result, a memo created or updated since the load began is in the
\* collection with its content, and a memo deleted since then is not.
LocalMutationsSurviveLoad ==
    [][last'.op = "loadComplete" =>
            /\ \A i \in 1..Len(memos) :
                    memos[i].id # OldMemo.id \/ memos[i].modifiedAt >= 1
                        => \E j \in 1..Len(memos') :
                                /\ memos'[j].id = memos[i].id
                                /\ memos'[j].content = memos[i].content
            /\ \A id \in {OldMemo.id} \cup (1..idCounter) :
                    id \notin Ids(memos) => id \notin Ids(memos')]_vars

\* C35: the store is marked loaded only when a load of the service has
\* ended well (hasLoaded).
LoadedFlagFollowsService == googleDriveLoaded => hasLoaded

\* C36: isLoading is on only while a call of loadMemos is running, and
\* whenever it is on it is turned off later: by the load that ends well, by
\* the load that fails, or by a sign-out.
LatchIsReleased ==
    /\ [](isLoading => loads # <<>>)
    /\ isLoading ~> ~isLoading

\* C36's case: a load failed and the flag is off with no load running.
LatchIsReleasedWitness ==
    /\ last.op = "loadFailed"
    /\ ~last.stale
    /\ ~isLoading /\ ~hasLoaded
    /\ loads = <<>>

\* C37: a load that ends well puts no memo into the collection whose id
\* the collection had lost by a delete.  (Under SpecComeBack a memo leaves
\* the collection by a delete, or by a load of a drive that does not hold
\* it.)
DeletedStaysDeleted ==
    [][last'.op = "loadComplete" =>
            \A id \in 1..MaxMemos : id \notin Ids(memos) => id \notin Ids(memos')]_vars

\* C38: no two general memos of the collection have the same title.
TitlesDistinct ==
    \A i \in 1..Len(memos) : \A j \in 1..Len(memos) :
        i # j /\ memos[i].mode = "general" /\ memos[j].mode = "general"
            => memos[i].title # memos[j].title

\* The fields a conversion leaves alone
PayloadOf(memo) ==
    [id |-> memo.id, content |-> memo.content, version |-> memo.version,
     createdAt |-> memo.createdAt, viewedAt |-> memo.viewedAt]

\* C39: a change of the mode, direct, automatic or confirmed in the dialog,
\* keeps the number and the order of the memos and each memo's id, content,
\* version, createdAt and viewedAt; a memo's modifiedAt stays or becomes the
\* time of the change.
ConversionKeepsPayload ==
    [][last'.op \in {"modeChangeDirect", "modeChange", "modeConfirm"} =>
            /\ Len(memos') = Len(memos)
            /\ \A i \in 1..Len(memos) :
                    /\ PayloadOf(memos'[i]) = PayloadOf(memos[i])
                    /\ memos'[i].modifiedAt \in {memos[i].modifiedAt, clock}
                    /\ memos'[i].mode \in {memos[i].mode, last'.toMode}]_vars

\* C39's case: the dialog's conversion changed the mode of a memo that is
\* a second version, in a collection of two memos.
ConversionKeepsPayloadWitness ==
    /\ last.op = "modeConfirm"
    /\ Len(memos) >= 2
    /\ \E i \in 1..Len(memos) :
            /\ memos[i].version > 1
            /\ memos[i].mode = last.toMode
            /\ last.pre[i].mode # last.toMode

====
